---- MODULE Spec2Model ----
(***************************************************************************)
(* DB-backed changes tries storage (core/client/db changes_tries_storage): *)
(* the header database and Meta that root resolution reads, the           *)
(* changes-tries column, the caller's DBTransaction, the configuration     *)
(* cache, and the operations commit, post_commit, prune, root, get.        *)
(***************************************************************************)
EXTENDS Integers, Sequences, FiniteSets, TLC

\* ------------------------------------------------------------------ bounds

\* Number of headers the block-tree specification stores (genesis included).
MaxBlocks == 4

\* ------------------------------------------------------------ option type

None == <<>>

Some(x) == <<x>>

IsSome(o) == o # <<>>

Unwrap(o) == o[1]

\* ----------------------------------------------------------- result type

Ok(v) == [tag |-> "Ok", val |-> v]

Err(m) == [tag |-> "Err", val |-> m]

IsOk(r) == r.tag = "Ok"

VARIABLES
    db,                 \* the KeyValueDB: one function per column
    meta,               \* Meta: finalized_hash, finalized_number, genesis_hash, best_hash
    cache,              \* the in-memory view of the DbCache
    tx,                 \* the caller's pending DBTransaction: a sequence of operations
    ops,                \* the DbCacheTransactionOps of written transactions, not yet post-committed
    pending,            \* the block the caller staged in tx, with what its commit returned
    min_blocks_to_keep, \* the retention policy: None (archive) or Some(K)
    committed,          \* history: block hash -> the changes trie committed and written for it
    prune_count,        \* history: the number of prune calls made
    last,               \* history: the last operation the caller of commit ran, with its inputs and result
    locks               \* the two RwLocks, and the position and the locals of each thread

vars == <<db, meta, cache, tx, ops, pending, min_blocks_to_keep, committed, prune_count, last,
          locks>>

\* H256::default(), the parent hash of the genesis header; never stored.
DefaultHash == 0

\* well_known_cache_keys::CHANGES_TRIE_CONFIG
CHANGES_TRIE_CONFIG == "chtr"

\* ------------------------------------------------------- KV and transaction

Put(col, key, val) == [op |-> "put", col |-> col, key |-> key, val |-> val]

Delete(col, key) == [op |-> "delete", col |-> col, key |-> key, val |-> None]

\* A column with key k set to v, or with key k removed.
ColPut(f, k, v) == [x \in DOMAIN f \cup {k} |-> IF x = k THEN v ELSE f[x]]

ColDelete(f, k) == [x \in DOMAIN f \ {k} |-> f[x]]

ApplyOp(d, o) ==
    [d EXCEPT ![o.col] = IF o.op = "put" THEN ColPut(@, o.key, o.val) ELSE ColDelete(@, o.key)]

\* KeyValueDB::write: the operations of a transaction applied in order, all at once.
RECURSIVE ApplyTx(_, _)
ApplyTx(d, t) == IF t = <<>> THEN d ELSE ApplyTx(ApplyOp(d, Head(t)), Tail(t))

\* KeyValueDB::get
DbGet(d, col, key) == IF key \in DOMAIN d[col] THEN Some(d[col][key]) ELSE None

\* ------------------------------------------------------------------ tries

\* A changes trie over a set of changed keys, as the MemoryDB handed to
\* commit: one leaf node per changed key and, when there are several, a
\* branch node above them.  A node is addressed by the hash of its value.
LeafValue(c) == [kind |-> "leaf", data |-> c, kids |-> {}]

RECURSIVE SumOf(_)
SumOf(S) == IF S = {} THEN 0 ELSE LET x == CHOOSE y \in S : TRUE IN x + SumOf(S \ {x})

RECURSIVE Pow2(_)
Pow2(n) == IF n = 0 THEN 1 ELSE 2 * Pow2(n - 1)

\* Blake2 of a node value, an injective map from node values to keys.
HashOf(v) ==
    IF v.kind = "leaf" THEN 100 + v.data
    ELSE 1000 + SumOf({Pow2(k - 100) : k \in v.kids})

BranchValue(S) == [kind |-> "branch", data |-> 0, kids |-> {HashOf(LeafValue(c)) : c \in S}]

\* The root node value of the trie over the changes S (S non-empty).
RootValue(S) == IF Cardinality(S) = 1 THEN LeafValue(CHOOSE c \in S : TRUE) ELSE BranchValue(S)

\* prepare_changes: the trie's root and its nodes as key -> value.
TrieRoot(S) == HashOf(RootValue(S))

TrieValues(S) == {LeafValue(c) : c \in S} \cup {RootValue(S)}

TrieDb(S) == [k \in {HashOf(v) : v \in TrieValues(S)} |->
                 CHOOSE v \in TrieValues(S) : HashOf(v) = k]

\* ---------------------------------------------------------- header oracle

BlockIdNumber(n) == [by |-> "Number", id |-> n]

BlockIdHash(h) == [by |-> "Hash", id |-> h]

\* utils::read_header: the header stored under a hash, or under the hash the
\* key-lookup column gives for a number.
ReadHeader(d, id) ==
    IF id.by = "Number"
    THEN IF IsSome(DbGet(d, "key_lookup", id.id))
         THEN DbGet(d, "header", Unwrap(DbGet(d, "key_lookup", id.id)))
         ELSE None
    ELSE DbGet(d, "header", id.id)

\* utils::require_header: an absent header is an error.
RequireHeader(d, id) ==
    IF IsSome(ReadHeader(d, id)) THEN Ok(Unwrap(ReadHeader(d, id)))
    ELSE Err(<<"UnknownBlock: header not found in db: ", id.by, id.id>>)

\* ----------------------------------------------------------- root resolver

\* The anchor of a query: state_machine::ChangesTrieAnchorBlockId.
Anchor(hash, number) == [hash |-> hash, number |-> number]

\* A traversal that answers with the canonical block at the target when a
\* header of the walk is missing.
RECURSIVE Traverse_falls_back(_, _, _, _, _)
Traverse_falls_back(d, current_hash, current_num, block, reads) ==
    IF current_num = block
    THEN [id |-> Ok(BlockIdHash(current_hash)), reads |-> reads]
    ELSE LET current_header == RequireHeader(d, BlockIdHash(current_hash))
             reads1 == Append(reads, BlockIdHash(current_hash))
         IN  IF ~IsOk(current_header)
             THEN [id |-> Ok(BlockIdNumber(block)), reads |-> reads1]
             ELSE Traverse_falls_back(d, current_header.val.parent_hash, current_num - 1,
                                      block, reads1)

\* A traversal that reads the header at the target as well before it stops.
RECURSIVE Traverse_reads_target(_, _, _, _, _)
Traverse_reads_target(d, current_hash, current_num, block, reads) ==
    IF current_num = block
    THEN [id |-> Ok(BlockIdHash(current_hash)),
          reads |-> Append(reads, BlockIdHash(current_hash))]
    ELSE LET current_header == RequireHeader(d, BlockIdHash(current_hash))
             reads1 == Append(reads, BlockIdHash(current_hash))
         IN  IF ~IsOk(current_header)
             THEN [id |-> current_header, reads |-> reads1]
             ELSE Traverse_reads_target(d, current_header.val.parent_hash, current_num - 1,
                                        block, reads1)

\* The traversal loop of root: from current_hash at current_num back to the
\* hash at number block, reading one header by hash per step.  reads is the
\* sequence of header lookups made so far.
RECURSIVE Traverse(_, _, _, _, _)
Traverse(d, current_hash, current_num, block, reads) ==
    IF current_num = block
    THEN [id |-> Ok(BlockIdHash(current_hash)), reads |-> reads]
    ELSE LET current_header == RequireHeader(d, BlockIdHash(current_hash))
             reads1 == Append(reads, BlockIdHash(current_hash))
         IN  IF ~IsOk(current_header)
             THEN [id |-> current_header, reads |-> reads1]
             ELSE Traverse(d, current_header.val.parent_hash, current_num - 1, block, reads1)

\* A resolver that walks back from the anchor whatever is finalized.
RootBlockId_walks_always(d, m, anchor, block) ==
    Traverse(d, anchor.hash, anchor.number, block, <<>>)

\* A resolver without the shortcut for a canonical anchor: it walks back
\* from the anchor whenever the target is not finalized.
RootBlockId_no_shortcut(d, m, anchor, block) ==
    IF block <= m.finalized_number
    THEN [id |-> Ok(BlockIdNumber(block)), reads |-> <<>>]
    ELSE LET maybe_anchor_header == RequireHeader(d, BlockIdNumber(anchor.number))
             reads1 == <<BlockIdNumber(anchor.number)>>
         IN  IF ~IsOk(maybe_anchor_header)
             THEN [id |-> maybe_anchor_header, reads |-> reads1]
             ELSE Traverse(d, anchor.hash, anchor.number, block, reads1)

\* A resolver that answers a finalized target with the last finalized block.
RootBlockId_finalized_tip(d, m, anchor, block) ==
    IF block <= m.finalized_number
    THEN [id |-> Ok(BlockIdNumber(m.finalized_number)), reads |-> <<>>]
    ELSE LET maybe_anchor_header == RequireHeader(d, BlockIdNumber(anchor.number))
             reads1 == <<BlockIdNumber(anchor.number)>>
         IN  IF ~IsOk(maybe_anchor_header)
             THEN [id |-> maybe_anchor_header, reads |-> reads1]
             ELSE IF maybe_anchor_header.val.hash = anchor.hash
                  THEN [id |-> Ok(BlockIdNumber(block)), reads |-> reads1]
                  ELSE Traverse(d, anchor.hash, anchor.number, block, reads1)

\* A resolver whose shortcut for a canonical anchor answers with the anchor.
RootBlockId_shortcut_to_anchor(d, m, anchor, block) ==
    IF block <= m.finalized_number
    THEN [id |-> Ok(BlockIdNumber(block)), reads |-> <<>>]
    ELSE LET maybe_anchor_header == RequireHeader(d, BlockIdNumber(anchor.number))
             reads1 == <<BlockIdNumber(anchor.number)>>
         IN  IF ~IsOk(maybe_anchor_header)
             THEN [id |-> maybe_anchor_header, reads |-> reads1]
             ELSE IF maybe_anchor_header.val.hash = anchor.hash
                  THEN [id |-> Ok(BlockIdNumber(anchor.number)), reads |-> reads1]
                  ELSE Traverse(d, anchor.hash, anchor.number, block, reads1)

\* The block id root resolves the target to, with the header lookups made.
RootBlockId(d, m, anchor, block) ==
    IF block <= m.finalized_number
    THEN [id |-> Ok(BlockIdNumber(block)), reads |-> <<>>]
    ELSE LET maybe_anchor_header == RequireHeader(d, BlockIdNumber(anchor.number))
             reads1 == <<BlockIdNumber(anchor.number)>>
         IN  IF ~IsOk(maybe_anchor_header)
             THEN [id |-> maybe_anchor_header, reads |-> reads1]
             ELSE IF maybe_anchor_header.val.hash = anchor.hash
                  THEN [id |-> Ok(BlockIdNumber(block)), reads |-> reads1]
                  ELSE Traverse(d, anchor.hash, anchor.number, block, reads1)

\* A root without the check of the API requirement: it reads the canonical
\* header at the target whatever the anchor.
RootRun_unchecked(d, m, anchor, block) ==
    LET header == RequireHeader(d, BlockIdNumber(block)) IN
    [result |-> IF IsOk(header) THEN Ok(header.val.changes_trie_root) ELSE header,
     reads  |-> <<BlockIdNumber(block)>>]

\* root, with the header lookups it makes: result is Ok(the ChangesTrieRoot
\* digest of the resolved header, an option) or Err(message).
RootRun(d, m, anchor, block) ==
    IF block > anchor.number
    THEN [result |-> Err(<<"Can't get changes trie root at ", block,
                           " using anchor at ", anchor.number>>),
          reads |-> <<>>]
    ELSE LET b == RootBlockId(d, m, anchor, block) IN
         IF ~IsOk(b.id)
         THEN [result |-> b.id, reads |-> b.reads]
         ELSE LET header == RequireHeader(d, b.id.val)
                  reads1 == Append(b.reads, b.id.val)
              IN  IF ~IsOk(header)
                  THEN [result |-> header, reads |-> reads1]
                  ELSE [result |-> Ok(header.val.changes_trie_root), reads |-> reads1]

\* root in the current state.
Root(anchor, block) == RootRun(db, meta, anchor, block).result

\* get: a node of the changes-tries column; the prefix is ignored.
Get(d, key, prefix) == Ok(DbGet(d, "changes_trie", key))

\* --------------------------------------------------------- configuration

\* ChangesTrieConfiguration { digest_interval, digest_levels }
Configuration(interval, levels) == [digest_interval |-> interval, digest_levels |-> levels]

\* Encode::encode of an Option<ChangesTrieConfiguration>: the option's tag
\* byte, then the two u32 fields.
Encode(c) == IF IsSome(c) THEN <<1, Unwrap(c).digest_interval, Unwrap(c).digest_levels>> ELSE <<0>>

\* extract_new_configuration: the payload of the header's ChangesTrieSignal,
\* None when the digest holds no signal.
extract_new_configuration(header) == header.signal

\* ------------------------------------------------------------------ cache

ComplexBlockId(hash, number) == [hash |-> hash, number |-> number]

\* DbCacheTransaction::on_block_insert followed by into_ops: the entry is
\* staged in the cache column of the transaction, and the operations to apply
\* to the in-memory cache after the write are returned.  It can fail (ok =
\* FALSE) with a ClientError, and then stages nothing.
on_block_insert(t, parent, block, cache_at, entry_type, ok) ==
    IF ok
    THEN [tx     |-> Append(t, Put("cache", block.hash,
                                   [cache_at |-> cache_at, entry_type |-> entry_type])),
          result |-> Ok([parent |-> parent, block |-> block,
                         cache_at |-> cache_at, entry_type |-> entry_type])]
    ELSE [tx |-> t, result |-> Err(<<"ClientError::Backend">>)]

\* DbCache::commit: the operations applied to the in-memory cache.
cache_commit(c, cache_ops) ==
    ColPut(c, cache_ops.block.hash,
           [cache_at |-> cache_ops.cache_at, entry_type |-> cache_ops.entry_type])

\* The configuration a chain starts with.
GenesisConfiguration == Some(Configuration(2, 2))

\* The value of the in-memory cache for CHANGES_TRIE_CONFIG at block b: the
\* value of the entry at b when the cache holds one; a block without an
\* entry inherits from its parent, and the genesis block has the encoding of
\* the genesis configuration.
RECURSIVE value_at_block(_, _, _)
value_at_block(c, d, b) ==
    IF b \in DOMAIN c THEN c[b].cache_at.value
    ELSE IF d.header[b].number = 0 THEN Encode(GenesisConfiguration)
    ELSE value_at_block(c, d, d.header[b].parent_hash)

\* ----------------------------------------------------------------- engine

\* A set of integers as an ascending sequence.
RECURSIVE SeqOfSet(_)
SeqOfSet(S) ==
    IF S = {} THEN <<>>
    ELSE LET x == CHOOSE y \in S : \A z \in S : y <= z IN <<x>> \o SeqOfSet(S \ {x})

\* The orders a hash map with the keys S can be iterated in: every sequence
\* that holds each key once.
Orders(S) ==
    {order \in [1..Cardinality(S) -> S] :
        \A i, j \in 1..Cardinality(S) : order[i] = order[j] => i = j}

\* A drain loop that leaves out the first node.
DrainPuts_skips_first(changes_trie, order) ==
    [i \in 1..(Len(order) - 1) |->
        Put("changes_trie", order[i + 1], changes_trie[order[i + 1]])]

\* The loop of commit over changes_trie.drain(): one put per node, in the
\* order the hash map of the trie hands its nodes over.
DrainPuts(changes_trie, order) ==
    [i \in 1..Len(order) |-> Put("changes_trie", order[i], changes_trie[order[i]])]

\* A cache part of commit that returns the cache operations and stages nothing.
CommitCache_stages_nothing(t, parent_block, block, finalized, new_configuration, cache_ok) ==
    IF IsSome(new_configuration)
    THEN LET cache_at == [key |-> CHANGES_TRIE_CONFIG, value |-> Encode(Unwrap(new_configuration))]
             r == on_block_insert(t, parent_block, block, cache_at,
                                  IF finalized THEN "Final" ELSE "NonFinal", cache_ok)
         IN  [tx |-> t, result |-> IF IsOk(r.result) THEN Ok(Some(r.result.val)) ELSE r.result]
    ELSE [tx |-> t, result |-> Ok(None)]

\* A cache part of commit whose transition is never of the Final entry type.
CommitCache_ignores_finalized(t, parent_block, block, finalized, new_configuration, cache_ok) ==
    IF IsSome(new_configuration)
    THEN LET cache_at == [key |-> CHANGES_TRIE_CONFIG, value |-> Encode(Unwrap(new_configuration))]
             r == on_block_insert(t, parent_block, block, cache_at, "NonFinal", cache_ok)
         IN  [tx |-> r.tx, result |-> IF IsOk(r.result) THEN Ok(Some(r.result.val)) ELSE r.result]
    ELSE [tx |-> t, result |-> Ok(None)]

\* A cache part of commit that treats the signalled removal of the
\* configuration as no signal.
CommitCache_skips_removal(t, parent_block, block, finalized, new_configuration, cache_ok) ==
    IF IsSome(new_configuration) /\ IsSome(Unwrap(new_configuration))
    THEN LET cache_at == [key |-> CHANGES_TRIE_CONFIG, value |-> Encode(Unwrap(new_configuration))]
             r == on_block_insert(t, parent_block, block, cache_at,
                                  IF finalized THEN "Final" ELSE "NonFinal", cache_ok)
         IN  [tx |-> r.tx, result |-> IF IsOk(r.result) THEN Ok(Some(r.result.val)) ELSE r.result]
    ELSE [tx |-> t, result |-> Ok(None)]

\* commit after the drain loop: with a configuration signal the cache
\* transition is staged under the write guard of the cache and its
\* operations are returned, Ok(Some(ops)), or its error, Err(ClientError);
\* without one the call returns Ok(None).
CommitCache(t, parent_block, block, finalized, new_configuration, cache_ok) ==
    IF IsSome(new_configuration)
    THEN LET cache_at == [key |-> CHANGES_TRIE_CONFIG, value |-> Encode(Unwrap(new_configuration))]
             r == on_block_insert(t, parent_block, block, cache_at,
                                  IF finalized THEN "Final" ELSE "NonFinal", cache_ok)
         IN  [tx |-> r.tx, result |-> IF IsOk(r.result) THEN Ok(Some(r.result.val)) ELSE r.result]
    ELSE [tx |-> t, result |-> Ok(None)]

\* commit when no other thread runs beside it: the transaction after the
\* call and what the call returns.  order is the order of the drain.
Commit(t, changes_trie, order, parent_block, block, finalized, new_configuration, cache_ok) ==
    CommitCache(t \o DrainPuts(changes_trie, order),
                parent_block, block, finalized, new_configuration, cache_ok)

\* post_commit: the in-memory cache after the operations are applied.
PostCommitCache(c, cache_ops) == cache_commit(c, cache_ops)

\* A build_anchor that looks the block up in the number index at the number
\* of the header it found, and answers with the canonical block there.
build_anchor_canonical(d, hash) ==
    LET maybe_header == ReadHeader(d, BlockIdHash(hash)) IN
    IF IsSome(maybe_header)
    THEN LET n == Unwrap(maybe_header).number IN
         Ok(Anchor(IF n \in DOMAIN d.key_lookup THEN d.key_lookup[n] ELSE hash, n))
    ELSE Err(<<"Unknown header: ", hash>>)

\* build_anchor: the anchor of the header stored under the hash, on any
\* fork; the error "Unknown header: <hash>" when the store has none.
build_anchor(d, hash) ==
    LET maybe_header == ReadHeader(d, BlockIdHash(hash)) IN
    IF IsSome(maybe_header)
    THEN Ok(Anchor(hash, Unwrap(maybe_header).number))
    ELSE Err(<<"Unknown header: ", hash>>)

\* ---------------------------------------------------------------- backend

\* The hashes from the genesis block to h along parent pointers, as a
\* function from block number to hash.
RECURSIVE PathTo(_, _)
PathTo(d, h) ==
    IF h \notin DOMAIN d.header THEN <<>>
    ELSE LET hd == d.header[h] IN
         IF hd.number = 0 THEN (0 :> h)
         ELSE PathTo(d, hd.parent_hash) @@ (hd.number :> h)

\* Whether block a is b or an ancestor of b.
IsAncestorOrSelf(d, a, b) ==
    /\ a \in DOMAIN d.header
    /\ b \in DOMAIN d.header
    /\ d.header[a].number \in DOMAIN PathTo(d, b)
    /\ PathTo(d, b)[d.header[a].number] = a

\* set_head_with_transaction: the number index is moved to the chain of the
\* new best block: the retracted numbers are removed, the enacted ones set.
SetHeadOps(d, path) ==
    LET retracted == SeqOfSet({n \in DOMAIN d.key_lookup :
                                  n \notin DOMAIN path \/ path[n] # d.key_lookup[n]})
        enacted   == SeqOfSet({n \in DOMAIN path :
                                  n \notin DOMAIN d.key_lookup \/ path[n] # d.key_lookup[n]})
    IN  [i \in 1..Len(retracted) |-> Delete("key_lookup", retracted[i])]
        \o [i \in 1..Len(enacted) |-> Put("key_lookup", enacted[i], path[enacted[i]])]

\* The hash of the next header to be stored.
NextHash(d) == Cardinality(DOMAIN d.header) + 1

\* The header of a new block: its changes trie root digest when it has
\* changes, and its ChangesTrieSignal digest when it carries one.
NewHeader(d, parent, changes, signal) ==
    [hash              |-> NextHash(d),
     number            |-> d.header[parent].number + 1,
     parent_hash       |-> parent,
     changes_trie_root |-> IF changes = {} THEN None ELSE Some(TrieRoot(changes)),
     signal            |-> signal]

\* The changes trie of a block with the given changes: none without changes.
BlockTrie(changes) == IF changes = {} THEN << >> ELSE TrieDb(changes)

\* What the caller of commit stages in the transaction t for a block before
\* it calls commit: the header, and the move of the number index when the
\* block is the new best.  state is the NewBlockState: Normal, Best or Final.
StageHeader(d, t, parent, changes, state, signal) ==
    LET header == NewHeader(d, parent, changes, signal)
        d1     == ApplyOp(d, Put("header", header.hash, header))
    IN  Append(t, Put("header", header.hash, header))
        \o (IF state = "Normal" THEN <<>> ELSE SetHeadOps(d, PathTo(d1, header.hash)))

\* The block the caller has staged and called commit for: what the write of
\* the transaction and the Meta update need to know of it, the arguments of
\* the running commit, and what commit returned, when it has.
StagedBlock(d, parent, changes, state, signal, result) ==
    LET header == NewHeader(d, parent, changes, signal) IN
    [hash |-> header.hash, number |-> header.number, state |-> state,
     changes_trie |-> BlockTrie(changes),
     parent_block |-> ComplexBlockId(parent, d.header[parent].number),
     new_configuration |-> extract_new_configuration(header),
     result |-> result]

\* The import of a block when no other thread runs beside it: what is staged
\* in the transaction t, header, number index and commit, and what commit
\* returns.
StageBlock(d, t, parent, changes, order, state, signal, cache_ok) ==
    LET header == NewHeader(d, parent, changes, signal)
        c      == Commit(StageHeader(d, t, parent, changes, state, signal),
                         BlockTrie(changes), order,
                         ComplexBlockId(parent, d.header[parent].number),
                         ComplexBlockId(header.hash, header.number),
                         state = "Final",
                         extract_new_configuration(header),
                         cache_ok)
    IN  [tx |-> c.tx, result |-> c.result,
         pending |-> StagedBlock(d, parent, changes, state, signal, Some(c.result))]

\* The Meta update that follows the write of an imported block.
MetaAfter(m, p) ==
    [m EXCEPT !.best_hash        = IF p.state = "Normal" THEN @ ELSE p.hash,
              !.finalized_hash   = IF p.state = "Final" THEN p.hash ELSE @,
              !.finalized_number = IF p.state = "Final" THEN p.number ELSE @]

\* A block may be imported on a stored parent; as the new best block only
\* when that does not retract the finalized block, and as a finalized block
\* only on the last finalized block.
CanImport(d, m, parent, state) ==
    /\ parent \in DOMAIN d.header
    /\ state # "Normal" => IsAncestorOrSelf(d, m.finalized_hash, parent)
    /\ state = "Final" => parent = m.finalized_hash

\* ------------------------------------------------------ pruning algorithm

\* Configuration::is_digest_build_enabled
is_digest_build_enabled(config) == config.digest_interval > 1 /\ config.digest_levels > 0

\* The loop of digest_level_at_block: the digest interval is multiplied by
\* digest_interval, one level at a time, while the block is a multiple of it.
\* (The checked_mul of the loop cannot overflow u32 for the intervals and
\* levels of this model.)
RECURSIVE digest_level_loop(_, _, _, _)
digest_level_loop(config, block, current_level, digest_interval) ==
    IF current_level < config.digest_levels
       /\ block % (digest_interval * config.digest_interval) = 0
    THEN digest_level_loop(config, block, current_level + 1,
                           digest_interval * config.digest_interval)
    ELSE [level |-> current_level, interval |-> digest_interval]

\* Configuration::digest_level_at_block, the configuration active from block
\* zero: the level and the interval of the digest built at the block, None
\* when no digest is built there.
digest_level_at_block(config, block) ==
    IF block = 0 \/ ~is_digest_build_enabled(config) \/ block % config.digest_interval # 0
    THEN None
    ELSE Some(digest_level_loop(config, block, 1, config.digest_interval))

\* max_digest_intervals_to_keep
max_digest_intervals_to_keep(min_blocks, max_digest_interval) ==
    IF min_blocks \div max_digest_interval = 0 THEN 1 ELSE min_blocks \div max_digest_interval

\* A pruning range that takes a digest of any level for the top-level one.
pruning_range_any_level(config, min_blocks, block) ==
    LET at == digest_level_at_block(config, block)
        enabled == is_digest_build_enabled(config)
        prune_interval == IF enabled /\ IsSome(at) THEN Unwrap(at).interval ELSE 1
        blocks_to_keep == IF enabled
                          THEN max_digest_intervals_to_keep(min_blocks, prune_interval)
                               * prune_interval
                          ELSE min_blocks
    IN  IF enabled /\ ~IsSome(at) THEN None
        ELSE IF block < blocks_to_keep \/ block - blocks_to_keep < prune_interval THEN None
        ELSE Some([first |-> block - blocks_to_keep - prune_interval + 1,
                   last  |-> block - blocks_to_keep])

\* pruning_range: the inclusive range of blocks whose tries are pruned at the
\* block, None when nothing is pruned there.
pruning_range(config, min_blocks, block) ==
    LET at == digest_level_at_block(config, block)
        enabled == is_digest_build_enabled(config)
        top == IsSome(at) /\ Unwrap(at).level = config.digest_levels
        prune_interval == IF enabled THEN Unwrap(at).interval ELSE 1
        blocks_to_keep == IF enabled
                          THEN max_digest_intervals_to_keep(min_blocks, prune_interval)
                               * prune_interval
                          ELSE min_blocks
    IN  IF enabled /\ ~top THEN None
        ELSE IF block < blocks_to_keep \/ block - blocks_to_keep < prune_interval THEN None
        ELSE Some([first |-> block - blocks_to_keep - prune_interval + 1,
                   last  |-> block - blocks_to_keep])

\* The nodes of the trie under root that the storage d holds: the root node
\* and the nodes it refers to.
TrieNodes(d, root) ==
    IF root \in DOMAIN d.changes_trie THEN {root} \cup d.changes_trie[root].kids ELSE {root}

\* The keys the pruning algorithm hands to remove_trie_node for the trie
\* under root: the root, then the nodes the stored root node refers to.
TrieNodeSeq(d, root) ==
    <<root>> \o (IF root \in DOMAIN d.changes_trie
                 THEN SeqOfSet(d.changes_trie[root].kids) ELSE << >>)

\* state_machine::prune_changes_tries, its range: the blocks it calls root
\* for, in ascending order; none when nothing is pruned at the block.
prune_range_blocks(config, min_blocks, block_num) ==
    LET range == pruning_range(config, min_blocks, block_num) IN
    IF IsSome(range)
    THEN [i \in 1..(Unwrap(range).last - Unwrap(range).first + 1) |->
             Unwrap(range).first + i - 1]
    ELSE << >>

\* state_machine::oldest_non_pruned_changes_trie
oldest_non_pruned_changes_trie(config, min_blocks, best_finalized_block) ==
    LET max_digest_interval ==
            IF is_digest_build_enabled(config)
            THEN digest_level_loop(config, 0, 1, config.digest_interval).interval ELSE 1
        max_digest_block == best_finalized_block - (best_finalized_block % max_digest_interval)
        range == pruning_range(config, min_blocks, max_digest_block)
    IN  IF IsSome(range) THEN Unwrap(range).last + 1 ELSE 1

\* A prune without the archive check: an archive node prunes as under Keep(4).
PruneTodo_no_archive(keep, config, block_num) ==
    prune_range_blocks(config, IF IsSome(keep) THEN Unwrap(keep) ELSE 4, block_num)

\* A prune that asks the pruning algorithm to keep one block more.
PruneTodo_keeps_one_more(keep, config, block_num) ==
    IF ~IsSome(keep) THEN << >> ELSE prune_range_blocks(config, Unwrap(keep) + 1, block_num)

\* A prune that asks the pruning algorithm to keep one block less.
PruneTodo_keeps_one_less(keep, config, block_num) ==
    IF ~IsSome(keep) THEN << >> ELSE prune_range_blocks(config, Unwrap(keep) - 1, block_num)

\* prune, up to the first call back: the blocks the pruning algorithm is
\* going to call root for.  None on an archive node, where prune returns
\* before it calls the algorithm.
PruneTodo(keep, config, block_num) ==
    IF ~IsSome(keep) THEN << >> ELSE prune_range_blocks(config, Unwrap(keep), block_num)

\* A sink that starts a transaction of its own for the deletions.
PruneBlock_fresh_transaction(t, d, m, current_block, b) ==
    LET r     == RootRun(d, m, current_block, b).result
        nodes == IF IsOk(r) /\ IsSome(r.val) THEN TrieNodeSeq(d, Unwrap(r.val)) ELSE << >>
    IN  [i \in 1..Len(nodes) |-> Delete("changes_trie", nodes[i])]

\* prune, one block of the range: the pruning algorithm calls root for the
\* block relative to the tip and, when the block has a root, hands the nodes
\* of the trie under it to the sink, which stages one delete for each.  A
\* block without a root or with an error for a root is passed over.
PruneBlock(t, d, m, current_block, b) ==
    LET r     == RootRun(d, m, current_block, b).result
        nodes == IF IsOk(r) /\ IsSome(r.val) THEN TrieNodeSeq(d, Unwrap(r.val)) ELSE << >>
    IN  t \o [i \in 1..Len(nodes) |-> Delete("changes_trie", nodes[i])]

\* The blocks of the range one after the other, on one store and one Meta.
RECURSIVE PruneLoop(_, _, _, _, _)
PruneLoop(t, d, m, current_block, todo) ==
    IF todo = << >> THEN t
    ELSE PruneLoop(PruneBlock(t, d, m, current_block, Head(todo)),
                   d, m, current_block, Tail(todo))

\* prune when no other thread runs beside it: the transaction after the call.
Prune(t, d, m, keep, config, block_hash, block_num) ==
    PruneLoop(t, d, m, Anchor(block_hash, block_num), PruneTodo(keep, config, block_num))

\* An oldest_changes_trie_block that answers for an archive node as under Keep(4).
oldest_changes_trie_block_no_archive(keep, config, best_finalized_block) ==
    oldest_non_pruned_changes_trie(config, IF IsSome(keep) THEN Unwrap(keep) ELSE 4,
                                   best_finalized_block)

\* oldest_changes_trie_block
oldest_changes_trie_block(keep, config, best_finalized_block) ==
    IF IsSome(keep)
    THEN oldest_non_pruned_changes_trie(config, Unwrap(keep), best_finalized_block)
    ELSE 1

\* ------------------------------------------------------------------- state

\* The locals of a querier that is not inside root: the anchor and the
\* target of its call, the finalized_number it read, the block id it resolved
\* the target to, the Result it got, and the store and Meta as they were when
\* the call began.
NoQuery ==
    [pc |-> "idle", anchor |-> [hash |-> 0, number |-> 0], block |-> 0, seen |-> 0,
     id |-> None, result |-> None, start |-> << >>]

\* The locks as construction leaves them: nobody holds the RwLock of Meta or
\* that of the cache, no thread is parked on the write guard of Meta
\* (meta_waiting is the set of the parked threads), every thread is idle; the
\* locals of a
\* running prune (the blocks it has still to call root for, the
\* finalized_number root read last, the number of finalizations that fell
\* inside it, its tip, whether it stages the deletes in a transaction of its
\* own, and that transaction) are empty, and so is the local of the caller
\* of commit, the block it has written and not yet updated Meta for.
NoLocks ==
    [meta_readers |-> 0, meta_writer |-> FALSE, meta_waiting |-> {},
     cache_writer |-> FALSE,
     pc           |-> [pruner |-> "idle", finalizer |-> "idle", importer |-> "idle",
                       poster |-> "idle"],
     todo         |-> << >>,
     seen         |-> 0,
     stores       |-> 0,
     tip          |-> Anchor(DefaultHash, 0),
     own          |-> FALSE,
     ptx          |-> << >>,
     written      |-> None,
     query        |-> NoQuery]

\* The genesis block, stored on construction with the changes trie over the
\* single change 1; it is the best and the finalized block.
GenesisHeader ==
    [hash |-> 1, number |-> 0, parent_hash |-> DefaultHash,
     changes_trie_root |-> Some(TrieRoot({1})), signal |-> None]

InitStore ==
    /\ db = [header       |-> (1 :> GenesisHeader),
             key_lookup   |-> (0 :> 1),
             changes_trie |-> TrieDb({1}),
             cache        |-> << >>]
    /\ meta = [finalized_hash |-> 1, finalized_number |-> 0, genesis_hash |-> 1, best_hash |-> 1]
    /\ cache = << >>
    /\ tx = << >>
    /\ ops = << >>
    /\ pending = None
    /\ committed = (1 :> TrieDb({1}))
    /\ prune_count = 0
    /\ last = [op |-> "new"]
    /\ locks = NoLocks

\* An archive node.
Init == InitStore /\ min_blocks_to_keep = None

\* ----------------------------------------------------------------- actions

\* Whether the RwLock of Meta grants a read guard, whether it grants the
\* write guard, and whether that of the cache grants the write guard.  The
\* RwLocks are those of parking_lot: a writer waits until no guard is held,
\* and a reader waits while a writer holds the lock or is parked on it.
MetaReadFree == ~locks.meta_writer /\ locks.meta_waiting = {}
MetaWriteFree == locks.meta_readers = 0 /\ ~locks.meta_writer
CacheWriteFree == ~locks.cache_writer

\* Whether the caller holds an open transaction and is inside no call.
TxOpen == locks.pc.importer = "staged"

\* Whether written cache operations wait for post_commit.
OpsWritten == ops # << >>

\* Whether the caller is not inside a prune it called with its transaction.
CallerFree == locks.pc.pruner = "idle" \/ locks.own

\* Whether the commit of the staged block returned an error.
CommitFailed ==
    /\ IsSome(pending)
    /\ IsSome(Unwrap(pending).result)
    /\ ~IsOk(Unwrap(Unwrap(pending).result))

\* The record of a commit that returned, for the staged block p.
CommitRecord(p) ==
    [op |-> "commit", result |-> Unwrap(p.result),
     block |-> ComplexBlockId(p.hash, p.number),
     parent_block |-> p.parent_block,
     changes_trie |-> p.changes_trie,
     finalized |-> (p.state = "Final"),
     new_configuration |-> p.new_configuration]

\* The import of a block in one step, as insert_header of the tests does it:
\* the block is staged in a fresh transaction, the transaction is written,
\* Meta is updated and the cache operations are post-committed.
InsertHeader(parent, changes, state, signal) ==
    /\ tx = << >> /\ pending = None /\ ops = << >>
    /\ locks.pc.importer = "idle" /\ CallerFree
    /\ CanImport(db, meta, parent, state)
    /\ \E order \in Orders(DOMAIN BlockTrie(changes)) :
       LET s == StageBlock(db, << >>, parent, changes, order, state, signal, TRUE) IN
       /\ db' = ApplyTx(db, s.tx)
       /\ meta' = MetaAfter(meta, s.pending)
       /\ cache' = IF IsSome(s.result.val)
                   THEN PostCommitCache(cache, Unwrap(s.result.val)) ELSE cache
       /\ committed' = ColPut(committed, s.pending.hash, s.pending.changes_trie)
       /\ last' = [op |-> "insert_header"]
    /\ UNCHANGED <<locks, tx, ops, pending, min_blocks_to_keep, prune_count>>

\* Finalization of the stored block h, a child of the last finalized block,
\* by a thread of its own while no import is staged: Meta advances under its
\* write guard, and when h is not on the best chain it becomes the head.
\* A store that falls inside a running prune is counted.
Finalize(h) ==
    /\ pending = None /\ locks.written = None
    /\ MetaWriteFree
    /\ h \in DOMAIN db.header
    /\ db.header[h].parent_hash = meta.finalized_hash
    /\ LET on_best == IsAncestorOrSelf(db, h, meta.best_hash) IN
       /\ db' = IF on_best THEN db ELSE ApplyTx(db, SetHeadOps(db, PathTo(db, h)))
       /\ meta' = [meta EXCEPT !.finalized_hash = h,
                               !.finalized_number = db.header[h].number,
                               !.best_hash = IF on_best THEN @ ELSE h]
    /\ last' = [op |-> "finalize"]
    /\ locks' = [locks EXCEPT !.stores = IF locks.pc.pruner = "idle" THEN @ ELSE @ + 1]
    /\ UNCHANGED <<cache, tx, ops, pending, min_blocks_to_keep, committed, prune_count>>

\* A commit that writes the trie nodes to the store at once instead of
\* staging them in the caller's transaction.
CommitBlock_writes_nodes(parent, changes, state, signal) ==
    /\ locks.pc.importer = "idle" /\ CallerFree
    /\ CanImport(db, meta, parent, state)
    /\ \E order \in Orders(DOMAIN BlockTrie(changes)) :
          /\ tx' = StageHeader(db, tx, parent, changes, state, signal)
          /\ db' = ApplyTx(db, DrainPuts(BlockTrie(changes), order))
    /\ LET returned == IF IsSome(signal) THEN None ELSE Some(Ok(None))
           block    == StagedBlock(db, parent, changes, state, signal, returned)
       IN  /\ pending' = Some(block)
           /\ last' = IF IsSome(signal) THEN [op |-> "drain"] ELSE CommitRecord(block)
           /\ locks' = [locks EXCEPT !.pc.importer = IF IsSome(signal) THEN "commit_enter"
                                                     ELSE "staged"]
    /\ UNCHANGED <<meta, cache, ops, min_blocks_to_keep, committed, prune_count>>

\* The caller stages the header of a block in its transaction and calls
\* commit with the block's changes trie and the configuration signal of its
\* header.  commit drains the trie into the transaction, node by node in the
\* order the hash map yields them.  Without a signal it returns Ok(None);
\* with one it goes on to ask for the write guard of the cache.
CommitBlock(parent, changes, state, signal) ==
    /\ locks.pc.importer = "idle" /\ CallerFree
    /\ CanImport(db, meta, parent, state)
    /\ \E order \in Orders(DOMAIN BlockTrie(changes)) :
          tx' = StageHeader(db, tx, parent, changes, state, signal)
                \o DrainPuts(BlockTrie(changes), order)
    /\ LET returned == IF IsSome(signal) THEN None ELSE Some(Ok(None))
           block    == StagedBlock(db, parent, changes, state, signal, returned)
       IN  /\ pending' = Some(block)
           /\ last' = IF IsSome(signal) THEN [op |-> "drain"] ELSE CommitRecord(block)
           /\ locks' = [locks EXCEPT !.pc.importer = IF IsSome(signal) THEN "commit_enter"
                                                     ELSE "staged"]
    /\ UNCHANGED <<db, meta, cache, ops, min_blocks_to_keep, committed, prune_count>>

\* commit is granted the write guard of the cache.
CommitEnter ==
    /\ locks.pc.importer = "commit_enter"
    /\ CacheWriteFree
    /\ locks' = [locks EXCEPT !.cache_writer = TRUE, !.pc.importer = "commit"]
    /\ UNCHANGED <<db, meta, cache, tx, ops, pending, min_blocks_to_keep, committed,
                   prune_count, last>>

\* A commit that applies its cache operations to the in-memory cache at once.
CommitTransition_installs_cache(cache_ok) ==
    /\ locks.pc.importer = "commit"
    /\ LET p == Unwrap(pending)
           c == CommitCache(tx, p.parent_block, ComplexBlockId(p.hash, p.number),
                            p.state = "Final", p.new_configuration, cache_ok)
           q == [p EXCEPT !.result = Some(c.result)]
       IN  /\ tx' = c.tx
           /\ cache' = IF IsOk(c.result) /\ IsSome(c.result.val)
                       THEN PostCommitCache(cache, Unwrap(c.result.val)) ELSE cache
           /\ pending' = Some(q)
           /\ last' = CommitRecord(q)
    /\ locks' = [locks EXCEPT !.cache_writer = FALSE, !.pc.importer = "staged"]
    /\ UNCHANGED <<db, meta, ops, min_blocks_to_keep, committed, prune_count>>

\* commit, holding the write guard of the cache, runs the cache transition
\* of the staged block and returns; the guard is dropped at the end of the
\* statement.  cache_ok says whether the cache transition succeeds.
CommitTransition(cache_ok) ==
    /\ locks.pc.importer = "commit"
    /\ LET p == Unwrap(pending)
           c == CommitCache(tx, p.parent_block, ComplexBlockId(p.hash, p.number),
                            p.state = "Final", p.new_configuration, cache_ok)
           q == [p EXCEPT !.result = Some(c.result)]
       IN  /\ tx' = c.tx
           /\ pending' = Some(q)
           /\ last' = CommitRecord(q)
    /\ locks' = [locks EXCEPT !.cache_writer = FALSE, !.pc.importer = "staged"]
    /\ UNCHANGED <<db, meta, cache, ops, min_blocks_to_keep, committed, prune_count>>

\* The cache operations the commit of the staged block returned, as the
\* entries they add to the queue of post_commit.
ReturnedOps(p) ==
    IF IsSome(p) /\ IsOk(Unwrap(Unwrap(p).result)) /\ IsSome(Unwrap(Unwrap(p).result).val)
    THEN <<Unwrap(Unwrap(Unwrap(p).result).val)>> ELSE << >>

\* The caller writes its transaction to the KV store, which takes no lock;
\* the cache operations commit returned are due for post_commit.  When a
\* block was staged in the transaction the caller goes on to update Meta.
KvWrite ==
    /\ TxOpen /\ CallerFree
    /\ ~CommitFailed
    /\ db' = ApplyTx(db, tx)
    /\ committed' = IF IsSome(pending)
                    THEN ColPut(committed, Unwrap(pending).hash, Unwrap(pending).changes_trie)
                    ELSE committed
    /\ ops' = ops \o ReturnedOps(pending)
    /\ tx' = << >>
    /\ last' = [op |-> "write"]
    /\ pending' = None
    /\ locks' = [locks EXCEPT !.written = pending,
                              !.pc.importer = IF IsSome(pending) THEN "written" ELSE "idle"]
    /\ UNCHANGED <<meta, cache, min_blocks_to_keep, prune_count>>

\* The caller, its block written, asks for the write guard of Meta and is
\* parked on the lock.
MetaRequest ==
    /\ locks.pc.importer = "written"
    /\ locks' = [locks EXCEPT !.meta_waiting = @ \cup {"importer"},
                              !.pc.importer = "meta_enter"]
    /\ UNCHANGED <<db, meta, cache, tx, ops, pending, min_blocks_to_keep, committed,
                   prune_count, last>>

\* The caller gets the write guard of Meta once no guard is held.
MetaEnter ==
    /\ locks.pc.importer = "meta_enter"
    /\ MetaWriteFree
    /\ locks' = [locks EXCEPT !.meta_waiting = @ \ {"importer"}, !.meta_writer = TRUE,
                              !.pc.importer = "meta_update"]
    /\ UNCHANGED <<db, meta, cache, tx, ops, pending, min_blocks_to_keep, committed,
                   prune_count, last>>

\* The caller updates Meta for the written block and drops the guard.
MetaUpdate ==
    /\ locks.pc.importer = "meta_update"
    /\ meta' = MetaAfter(meta, Unwrap(locks.written))
    /\ locks' = [locks EXCEPT !.meta_writer = FALSE, !.written = None,
                              !.pc.importer = "idle"]
    /\ UNCHANGED <<db, cache, tx, ops, pending, min_blocks_to_keep, committed,
                   prune_count, last>>

\* The write of the transaction fails: nothing of it reaches the store, and
\* the caller drops the cache operations commit returned.
KvWriteFails ==
    /\ TxOpen /\ CallerFree
    /\ ~CommitFailed
    /\ tx' = << >>
    /\ pending' = None
    /\ last' = [op |-> "write_failed"]
    /\ locks' = [locks EXCEPT !.pc.importer = "idle"]
    /\ UNCHANGED <<db, meta, cache, ops, min_blocks_to_keep, committed, prune_count>>

\* The caller drops its transaction, and the cache operations with it.
DropTx ==
    /\ TxOpen /\ CallerFree
    /\ tx' = << >>
    /\ pending' = None
    /\ last' = [op |-> "drop"]
    /\ locks' = [locks EXCEPT !.pc.importer = "idle"]
    /\ UNCHANGED <<db, meta, cache, ops, min_blocks_to_keep, committed, prune_count>>

\* post_commit is called with the oldest cache operations of a written
\* transaction, and asks for the write guard of the cache.
PostCommitCall ==
    /\ locks.pc.poster = "idle"
    /\ OpsWritten
    /\ locks' = [locks EXCEPT !.pc.poster = "post_commit_enter"]
    /\ UNCHANGED <<db, meta, cache, tx, ops, pending, min_blocks_to_keep, committed,
                   prune_count, last>>

\* post_commit is granted the write guard of the cache.
PostCommitEnter ==
    /\ locks.pc.poster = "post_commit_enter"
    /\ CacheWriteFree
    /\ locks' = [locks EXCEPT !.cache_writer = TRUE, !.pc.poster = "post_commit"]
    /\ UNCHANGED <<db, meta, cache, tx, ops, pending, min_blocks_to_keep, committed,
                   prune_count, last>>

\* post_commit applies the operations to the cache and drops the guard.
PostCommitApply ==
    /\ locks.pc.poster = "post_commit"
    /\ cache' = PostCommitCache(cache, Head(ops))
    /\ ops' = Tail(ops)
    /\ locks' = [locks EXCEPT !.cache_writer = FALSE, !.pc.poster = "idle"]
    /\ UNCHANGED <<db, meta, tx, pending, min_blocks_to_keep, committed, prune_count, last>>

\* The number of prune calls of a behaviour.
MaxPrunes == 2

\* The number of finalizations that fall inside one prune call.
MaxStores == 2

\* Whether another finalization may fall inside the running prune.
StoreAllowed == locks.pc.pruner = "idle" \/ locks.stores < MaxStores

\* The transaction a running prune stages its deletions in: the pruner's own
\* or that of the caller.
PruneTx == IF locks.own THEN locks.ptx ELSE tx

\* A prune that takes a read guard on Meta when it is entered and keeps it
\* over the calls back into root.
PruneEnter_holds_meta(config, block_hash, block_num, own) ==
    /\ locks.pc.pruner = "idle"
    /\ prune_count < MaxPrunes
    /\ ~own => locks.pc.importer \in {"idle", "staged"}
    /\ MetaReadFree
    /\ LET todo == PruneTodo(min_blocks_to_keep, config, block_num) IN
       IF todo = << >>
       THEN /\ prune_count' = prune_count + 1
            /\ last' = IF own THEN last ELSE [op |-> "prune"]
            /\ locks' = [locks EXCEPT !.meta_readers = @ + 1,
                                      !.pc.importer = IF own THEN @ ELSE "staged"]
       ELSE /\ locks' = [locks EXCEPT !.todo = todo,
                                      !.tip = Anchor(block_hash, block_num),
                                      !.own = own,
                                      !.meta_readers = @ + 1,
                                      !.pc.pruner = "root_enter"]
            /\ UNCHANGED <<prune_count, last>>
    /\ UNCHANGED <<db, meta, cache, tx, ops, pending, min_blocks_to_keep, committed>>

\* prune is entered with a configuration and a finalization tip, by a thread
\* of its own with a transaction of its own (own) or by the caller of commit
\* with its open or a new transaction.  No lock is taken.  On an archive
\* node prune returns at once, and so it does when the pruning algorithm
\* finds nothing to prune at the tip; otherwise the algorithm takes the range
\* of the tip and is about to call root for the first block of it.
PruneEnter(config, block_hash, block_num, own) ==
    /\ locks.pc.pruner = "idle"
    /\ prune_count < MaxPrunes
    /\ ~own => locks.pc.importer \in {"idle", "staged"}
    /\ LET todo == PruneTodo(min_blocks_to_keep, config, block_num) IN
       IF todo = << >>
       THEN /\ prune_count' = prune_count + 1
            /\ last' = IF own THEN last ELSE [op |-> "prune"]
            /\ locks' = [locks EXCEPT !.pc.importer = IF own THEN @ ELSE "staged"]
       ELSE /\ locks' = [locks EXCEPT !.todo = todo,
                                      !.tip = Anchor(block_hash, block_num),
                                      !.own = own,
                                      !.pc.pruner = "root_enter"]
            /\ UNCHANGED <<prune_count, last>>
    /\ UNCHANGED <<db, meta, cache, tx, ops, pending, min_blocks_to_keep, committed>>

\* root, called back by the pruning algorithm, takes the read guard of Meta.
RootEnter ==
    /\ locks.pc.pruner = "root_enter"
    /\ MetaReadFree
    /\ locks' = [locks EXCEPT !.meta_readers = @ + 1, !.pc.pruner = "root_read"]
    /\ UNCHANGED <<db, meta, cache, tx, ops, pending, min_blocks_to_keep, committed,
                   prune_count, last>>

\* root reads finalized_number, and the guard is dropped at the end of the
\* condition it was taken in.
RootRead ==
    /\ locks.pc.pruner = "root_read"
    /\ locks' = [locks EXCEPT !.seen = meta.finalized_number,
                              !.meta_readers = @ - 1,
                              !.pc.pruner = "root_resolve"]
    /\ UNCHANGED <<db, meta, cache, tx, ops, pending, min_blocks_to_keep, committed,
                   prune_count, last>>

\* root resolves the block with the finalized_number it read, holding no
\* lock, and the pruning algorithm hands the nodes of the trie under the root
\* it got to the sink, which stages their deletes; the next block of the
\* range follows.
RootResolve ==
    /\ locks.pc.pruner = "root_resolve"
    /\ LET t == PruneBlock(PruneTx, db, [meta EXCEPT !.finalized_number = locks.seen],
                           locks.tip, Head(locks.todo))
           next == IF Len(locks.todo) = 1 THEN "prune_exit" ELSE "root_enter"
       IN  IF locks.own
           THEN /\ locks' = [locks EXCEPT !.ptx = t, !.todo = Tail(@), !.pc.pruner = next]
                /\ tx' = tx
           ELSE /\ locks' = [locks EXCEPT !.todo = Tail(@), !.pc.pruner = next]
                /\ tx' = t
    /\ UNCHANGED <<db, meta, cache, ops, pending, min_blocks_to_keep, committed,
                   prune_count, last>>

\* prune returns after the last call back.  A pruner with a transaction of
\* its own writes it; the caller of commit is left with the deletes in its
\* open transaction.
PruneExit ==
    /\ locks.pc.pruner = "prune_exit"
    /\ db' = IF locks.own THEN ApplyTx(db, locks.ptx) ELSE db
    /\ prune_count' = prune_count + 1
    /\ last' = IF locks.own THEN last ELSE [op |-> "prune"]
    /\ locks' = [locks EXCEPT !.ptx = << >>, !.seen = 0, !.stores = 0, !.own = FALSE,
                              !.tip = Anchor(DefaultHash, 0),
                              !.pc.pruner = "idle",
                              !.pc.importer = IF locks.own THEN @ ELSE "staged"]
    /\ UNCHANGED <<meta, cache, tx, ops, pending, min_blocks_to_keep, committed>>

\* ----------------------------------------------------------- block tree

\* The block tree: blocks imported on any stored parent as normal or best
\* blocks, each with the changes trie over its own hash or with none, and
\* finalization along any fork.
TreeNext ==
    \/ \E parent \in DOMAIN db.header, state \in {"Normal", "Best"}, with_root \in BOOLEAN :
          /\ NextHash(db) <= MaxBlocks
          /\ InsertHeader(parent, IF with_root THEN {NextHash(db)} ELSE {}, state, None)
    \/ \E h \in DOMAIN db.header : Finalize(h)

Spec == Init /\ [][TreeNext]_vars

\* ---------------------------------------------------------------- pruning

\* The chain of the pruning test with digests: blocks 0..MaxChain.
MaxChain == 13

\* The chain of the pruning test without digests: blocks 0..MaxFlatChain.
MaxFlatChain == 6

\* The highest finalization tip prune is called with.
MaxTip == 16

\* The retention of the test with digests, Keep(8), and of the test without, Keep(4).
KeepDigest == 8

KeepFlat == 4

\* The configurations prune is handed: those of the pruning tests, digests of
\* interval 2 on 2 levels and none, and digests of interval 3 on one level,
\* whose interval divides neither retention.
PruneConfigs == {Configuration(2, 2), Configuration(0, 0), Configuration(3, 1)}

InitPrune == InitStore /\ min_blocks_to_keep \in {None, Some(KeepFlat), Some(KeepDigest)}

\* The hashes prune is handed with the tip number n: the default hash, as in
\* the test with digests, and the hash of the canonical block at n.
TipHashes(n) == {DefaultHash} \cup {db.key_lookup[k] : k \in DOMAIN db.key_lookup \cap {n}}

\* The numbers of the blocks that may carry the change of their parent
\* besides their own: the trie of such a block has three nodes, a branch for
\* a root and two leaves, one of them the root of the trie of its parent.
WideBlocks == {5}

\* The tips the prune calls of a behaviour are made with: those of the tests,
\* 5 and 6 without digests, 12 and 16 with them; 6 and 12 are digest blocks
\* of the configuration whose interval divides neither retention as well.
\* What a prune at any tip up to MaxTip does is stated of every state by the
\* formulas.
PruneTips == {5, 6, 12, 16}

\* The length of the chain of a node: that of its test.
ChainLimit == IF min_blocks_to_keep = Some(KeepFlat) THEN MaxFlatChain ELSE MaxChain

\* The pruning tests: one chain of blocks, each with the change of its own
\* or, at the numbers of WideBlocks, with that of its parent besides; each is
\* imported as the best block in a transaction that is written or dropped,
\* and finalized one by one.  prune is called with any of the configurations
\* and any of the tips on every node, with the caller's transaction, open or new,
\* and runs callback by callback, so that a finalization can fall between
\* two of its calls back into root.
PruneNext ==
    \/ \E shared \in BOOLEAN :
          /\ NextHash(db) <= ChainLimit + 1
          /\ shared => db.header[meta.best_hash].number + 1 \in WideBlocks
          /\ CommitBlock(meta.best_hash,
                         IF shared THEN {NextHash(db) - 1, NextHash(db)} ELSE {NextHash(db)},
                         "Best", None)
    \/ \E h \in DOMAIN db.header : StoreAllowed /\ Finalize(h)
    \/ \E config \in PruneConfigs, n \in PruneTips : \E h \in TipHashes(n) :
          PruneEnter(config, h, n, FALSE)
    \/ RootEnter
    \/ RootRead
    \/ RootResolve
    \/ PruneExit
    \/ KvWrite
    \/ MetaRequest
    \/ MetaEnter
    \/ MetaUpdate
    \/ DropTx

SpecPrune == InitPrune /\ [][PruneNext]_vars

\* ----------------------------------------------------------------- commit

\* The number of blocks of the commit specification, genesis included.
MaxCommitBlocks == 3

\* What the header of an imported block signals: nothing, the removal of the
\* configuration, or the configuration of scenario E.
Signals == {None, Some(None), Some(Some(Configuration(4, 1)))}

\* The import pipeline step by step: a block is staged on any stored parent
\* as the new best or as a finalized block, with the change of its own or
\* with the change of genesis besides (a trie of three nodes, one of them
\* stored already); commit waits for the write guard of the cache when the
\* header signals a configuration; the transaction is written, fails to be
\* written or is dropped; post_commit runs on a thread of its own, beside the
\* next import, for the operations of each written transaction in turn.
CommitNext ==
    \/ \E parent \in DOMAIN db.header, shared \in BOOLEAN,
          state \in {"Best", "Final"}, signal \in Signals :
          /\ NextHash(db) <= MaxCommitBlocks
          /\ CommitBlock(parent, IF shared THEN {1, NextHash(db)} ELSE {NextHash(db)},
                         state, signal)
    \/ CommitEnter
    \/ \E cache_ok \in BOOLEAN : CommitTransition(cache_ok)
    \/ KvWrite
    \/ MetaRequest
    \/ MetaEnter
    \/ MetaUpdate
    \/ KvWriteFails
    \/ DropTx
    \/ PostCommitCall
    \/ PostCommitEnter
    \/ PostCommitApply

SpecCommit == Init /\ [][CommitNext]_vars

\* ------------------------------------------------- root resolution claims

\* The hashes of the anchors a caller hands to root: those of the stored
\* headers, the default hash and a hash no header has.
AnchorHashes == DOMAIN db.header \cup {DefaultHash, NextHash(db)}

\* The numbers of anchors and targets: those of the stored headers and the
\* two above them.
Numbers == 0..(Cardinality({db.header[h].number : h \in DOMAIN db.header}) + 1)

\* The anchor build_anchor gives for the stored hash h.
StoredAnchor(h) == Anchor(h, db.header[h].number)

\* The ChangesTrieRoot digest of the canonical header at number b.
CanonicalRoot(b) == db.header[db.key_lookup[b]].changes_trie_root

\* The ChangesTrieRoot digest of the ancestor of the stored block h at number b.
AncestorRoot(h, b) == db.header[PathTo(db, h)[b]].changes_trie_root

\* C1: for every anchor, stored or not, on any fork, and every target b with
\* b <= anchor.number and b <= finalized_number, root returns the
\* ChangesTrieRoot digest of the canonical header at number b.
C1_FinalizedTargetIsCanonical ==
    \A h \in AnchorHashes, n \in Numbers, b \in Numbers :
        (b <= n /\ b <= meta.finalized_number) =>
            /\ b \in DOMAIN db.key_lookup
            /\ Root(Anchor(h, n), b) = Ok(CanonicalRoot(b))

\* C1 witness: a stored anchor on an abandoned fork whose own ancestor at a
\* finalized height b carries another root than the canonical block at b, and
\* root answers with the canonical one.
C1_Witness ==
    \E h \in DOMAIN db.header, b \in Numbers :
        /\ b <= db.header[h].number
        /\ b <= meta.finalized_number
        /\ PathTo(db, h)[b] # db.key_lookup[b]
        /\ AncestorRoot(h, b) # CanonicalRoot(b)
        /\ IsSome(CanonicalRoot(b))
        /\ Root(StoredAnchor(h), b) = Ok(CanonicalRoot(b))

\* C2 (as claimed): for every stored anchor that is not the canonical block
\* at its number and every b with finalized_number < b <= anchor.number, root
\* returns the root recorded in the header reached by walking
\* anchor.number - b parent pointers from the anchor.
C2_SideForkWalk ==
    \A h \in DOMAIN db.header, b \in Numbers :
        (/\ DbGet(db, "key_lookup", db.header[h].number) # Some(h)
         /\ meta.finalized_number < b
         /\ b <= db.header[h].number)
        => Root(StoredAnchor(h), b) = Ok(AncestorRoot(h, b))

\* C3: for every anchor and every b > anchor.number, root returns the error
\* "Can't get changes trie root at <b> using anchor at <anchor.number>" and
\* reads no header, whatever finalized_number is and whether or not the
\* anchor is stored.
C3_FutureTargetIsError ==
    \A h \in AnchorHashes, n \in Numbers, b \in Numbers :
        b > n =>
            RootRun(db, meta, Anchor(h, n), b) =
                [result |-> Err(<<"Can't get changes trie root at ", b, " using anchor at ", n>>),
                 reads  |-> << >>]

\* C3 witness: a target above the anchor's number that is finalized, so that
\* only the first check keeps root from answering with the canonical root.
C3_Witness ==
    \E h \in DOMAIN db.header, b \in Numbers :
        /\ b > db.header[h].number
        /\ b <= meta.finalized_number
        /\ b \in DOMAIN db.key_lookup
        /\ ~IsOk(Root(StoredAnchor(h), b))

\* ------------------------------------------------------------ commit claims

\* The prefixes get is called with; it reads none of them.
Prefixes == {<< >>, <<1>>}

\* C4: for every block whose commit was written, on every fork and after any
\* further commits, writes, failed writes, drops and post_commits, and for
\* every node (k, v) of the trie committed for it, get(k, prefix) returns
\* Some(v) for any prefix.
C4_CommittedNodesAreRetrievable ==
    \A h \in DOMAIN committed : \A k \in DOMAIN committed[h] : \A prefix \in Prefixes :
        Get(db, k, prefix) = Ok(Some(committed[h][k]))

\* C4 witness: two written blocks on different forks, at the same number, the
\* trie of the first of three nodes, one of them shared with the trie of
\* genesis, all returned by get after the write of the second.
C4_Witness ==
    /\ last.op = "write"
    /\ \E g, h \in DOMAIN committed :
          /\ g < h
          /\ db.header[g].number = db.header[h].number
          /\ Cardinality(DOMAIN committed[g]) = 3
          /\ Cardinality(DOMAIN committed[h]) = 1
          /\ \A k \in DOMAIN committed[g] : Get(db, k, << >>) = Ok(Some(committed[g][k]))

\* The entry of the in-memory cache for CHANGES_TRIE_CONFIG at block b that
\* reflects the configuration signalled by the stored header of b.
\* The entry is Final when the block was imported as a finalized block: it
\* is on the chain of the last finalized block, or it is the block the
\* caller has written as a finalized block and not yet updated Meta for.
ConfigEntry(d, b) ==
    [cache_at   |-> [key |-> CHANGES_TRIE_CONFIG, value |-> Encode(Unwrap(d.header[b].signal))],
     entry_type |-> IF \/ IsAncestorOrSelf(d, b, meta.finalized_hash)
                       \/ /\ IsSome(locks.written)
                          /\ Unwrap(locks.written).hash = b
                          /\ Unwrap(locks.written).state = "Final"
                    THEN "Final" ELSE "NonFinal"]

\* Whether the step is the one in which post_commit applies its operations.
PostCommitStep == locks.pc.poster = "post_commit" /\ locks'.pc.poster = "idle"

\* C5: the in-memory cache changes in post_commit only.  A commit that
\* returns cache operations leaves it as it is, in the drain and in the cache
\* transition, and so do the write of the transaction, a failed write and
\* the drop of the transaction with its operations; post_commit after the
\* write sets the entry at the written block to the configuration its
\* header signals, and nothing else.  The in-memory cache never holds an
\* entry the KV store does not hold.
C5_CacheChangesOnlyInPostCommit ==
    [][/\ ~PostCommitStep => cache' = cache
       /\ PostCommitStep =>
             \E b \in DOMAIN db.header :
                 /\ IsSome(db.header[b].signal)
                 /\ b \notin DOMAIN cache
                 /\ cache' = ColPut(cache, b, ConfigEntry(db, b))
       /\ \A b \in DOMAIN cache' :
             b \in DOMAIN db'.cache /\ db'.cache[b] = cache'[b]]_vars

\* C5 witness: post_commit has installed the configuration {interval 4,
\* levels 1} at a written block, after which a commit with a configuration
\* was staged whose write failed: the cache holds the first entry only.
C5_Witness ==
    /\ last.op = "write_failed"
    /\ DOMAIN cache = {2}
    /\ cache[2].cache_at.value = Encode(Some(Configuration(4, 1)))
    /\ DOMAIN db.header = {1, 2}

\* The key of the leaf node over the change of block b's own: a node of the
\* trie of b and of no other block's.
OwnLeaf(b) == HashOf(LeafValue(b))

\* C6: in every reachable state, for every block committed with a
\* configuration, the KV store holds either all nodes of its trie together
\* with its cache update for CHANGES_TRIE_CONFIG, or neither the nodes the
\* commit adds nor the cache update: a cache entry in the store comes with
\* every node of the block's trie, and a node of the block's own comes with
\* the cache entry when the block signals a configuration.  While the
\* transaction of a commit is open, nothing of it is in the store.
C6_CommitIsAtomicInStore ==
    /\ \A b \in DOMAIN db.cache :
          /\ b \in DOMAIN committed
          /\ IsSome(db.header[b].signal)
          /\ db.cache[b].cache_at =
                [key |-> CHANGES_TRIE_CONFIG, value |-> Encode(Unwrap(db.header[b].signal))]
          /\ \A k \in DOMAIN committed[b] : Get(db, k, << >>) = Ok(Some(committed[b][k]))
    /\ \A b \in 2..(MaxCommitBlocks + 1) :
          OwnLeaf(b) \in DOMAIN db.changes_trie =>
              /\ b \in DOMAIN db.header
              /\ IsSome(db.header[b].signal) => b \in DOMAIN db.cache
    /\ IsSome(pending) =>
          /\ OwnLeaf(Unwrap(pending).hash) \notin DOMAIN db.changes_trie
          /\ Unwrap(pending).hash \notin DOMAIN db.cache

\* C6 witness: a commit with a configuration was written, nodes and cache
\* update; a second one, on the same parent, was staged and dropped and left
\* nothing; a third one is staged with a trie of three nodes and the cache
\* update in the open transaction.
C6_Witness ==
    /\ last.op = "commit"
    /\ IsOk(last.result) /\ IsSome(last.result.val)
    /\ DOMAIN db.cache = {2}
    /\ OwnLeaf(2) \in DOMAIN db.changes_trie
    /\ Unwrap(pending).hash = 3
    /\ \E i \in 1..Len(tx) : tx[i].col = "cache" /\ tx[i].key = 3
    /\ Cardinality({i \in 1..Len(tx) : tx[i].col = "changes_trie"}) = 3

\* ----------------------------------------------------------- pruning claims

\* The numbers of the stored canonical blocks above genesis.
ChainBlocks == DOMAIN db.key_lookup \ {0}

\* The key of the root node of the changes trie of the canonical block b.
RootKey(b) == Unwrap(CanonicalRoot(b))

\* Whether get returns the root node of the canonical block b from the store d.
HasRoot(d, b) == IsSome(Get(d, RootKey(b), << >>).val)

\* Whether the caller can call prune in a transaction of its own: no call of
\* its is running and it holds no open transaction.
PruneCallable == locks.pc.pruner = "idle" /\ locks.pc.importer = "idle"

\* The store after a prune call with the given tip in a transaction of its
\* own, no other thread running beside it, and the write of that transaction.
AfterPrune(d, config, block_hash, block_num) ==
    ApplyTx(d, Prune(<< >>, d, meta, min_blocks_to_keep, config, block_hash, block_num))

\* The store d with the trie nodes of the given keys removed: get returns
\* None for them and what it returned from d for every other key.
Without(d, keys) ==
    [d EXCEPT !.changes_trie = [k \in DOMAIN @ \ keys |-> @[k]]]

\* The keys of the nodes of the tries of the canonical blocks B, as the store
\* d holds them: the roots and the nodes the stored root nodes refer to.
NodesOfBlocks(d, B) == UNION {TrieNodes(d, RootKey(b)) : b \in B}

\* Whether root resolves the target b for the tip: b is finalized, or the tip
\* is the canonical block at its number.
Resolves(block_hash, block_num, b) ==
    \/ b <= meta.finalized_number
    \/ DbGet(db, "key_lookup", block_num) = Some(block_hash)

\* C7: on an archive node prune stages nothing, whatever the configuration
\* and the tip: the transaction is the one handed in, no transaction ever
\* holds a deletion, and every node of every committed trie is still returned
\* by get after any prune calls and writes.
C7_ArchivePruneIsNoOp ==
    min_blocks_to_keep = None =>
        /\ \A config \in PruneConfigs, n \in 1..MaxTip : \A h \in TipHashes(n) :
              Prune(tx, db, meta, min_blocks_to_keep, config, h, n) = tx
        /\ \A i \in 1..Len(tx) : tx[i].op # "delete"
        /\ \A h \in DOMAIN committed : \A k \in DOMAIN committed[h] :
              Get(db, k, << >>) = Ok(Some(committed[h][k]))

\* C7 witness: an archive node with the whole chain finalized, after two
\* prune calls and the write of their transaction: every root is in place.
C7_Witness ==
    /\ min_blocks_to_keep = None
    /\ prune_count = MaxPrunes
    /\ last.op = "write"
    /\ meta.finalized_number = MaxChain
    /\ \A b \in 1..MaxChain : HasRoot(db, b)

\* The configurations with digests among those of the pruning tests.
DigestConfigs == {c \in PruneConfigs : is_digest_build_enabled(c)}

RECURSIVE IntPow(_, _)
IntPow(a, n) == IF n = 0 THEN 1 ELSE a * IntPow(a, n - 1)

\* The interval of the digests of the highest level; 1 without digests.
TopInterval(config) == IntPow(config.digest_interval, config.digest_levels)

\* The retention rounded to whole top-level intervals, one at least.
KeptBlocks(config, k) ==
    LET M == TopInterval(config) IN IF k \div M = 0 THEN M ELSE (k \div M) * M

\* The blocks whose tries a prune at tip F is to remove: the top-level
\* interval that ends KeptBlocks below F, when F is a top-level digest block
\* with a whole interval below the kept blocks; none otherwise.
PrunedBlocks(config, k, F) ==
    LET M == TopInterval(config)
        kept == KeptBlocks(config, k)
    IN  IF F % M = 0 /\ F >= kept + M THEN (F - kept - M + 1)..(F - kept) ELSE {}

\* C8 (amended): under Keep(K) with a digest configuration of top-level
\* interval M, a prune at tip F followed by the write of its transaction
\* removes the tries of exactly the blocks F-K'-M+1 .. F-K' that root resolves
\* for the tip, where K' is K rounded down to whole multiples of M (M at
\* least), and only when F is a multiple of M with F >= K' + M; get returns
\* None for every node of these tries, their roots first of all and a node
\* that the trie of another block shares included, and what it returned
\* before for every key that is no node of them.  With {interval 2, levels 2},
\* Keep(8) and blocks 0..13 finalized, prune at tip 12 removes the roots of
\* blocks 1..4 and keeps 5..12, and a following prune at tip 16 removes the
\* roots of blocks 5..8 and keeps 9..12.
C8_DigestPruning ==
    (IsSome(min_blocks_to_keep) /\ PruneCallable) =>
        /\ \A config \in DigestConfigs, n \in 1..MaxTip : \A h \in TipHashes(n) :
              AfterPrune(db, config, h, n) =
                  Without(db, NodesOfBlocks(db,
                      {c \in PrunedBlocks(config, Unwrap(min_blocks_to_keep), n) \cap ChainBlocks :
                          Resolves(h, n, c)}))
        /\ (/\ min_blocks_to_keep = Some(KeepDigest)
            /\ meta.finalized_number >= 13
            /\ \A b \in 1..12 : HasRoot(db, b))
           => LET after12 == AfterPrune(db, Configuration(2, 2), DefaultHash, 12)
                  after16 == AfterPrune(after12, Configuration(2, 2), DefaultHash, 16)
              IN  /\ \A b \in 1..4 : ~HasRoot(after12, b)
                  /\ \A b \in 5..12 : HasRoot(after12, b)
                  /\ \A b \in 1..8 : ~HasRoot(after16, b)
                  /\ \A b \in 9..12 : HasRoot(after16, b)

\* C8 witness: Keep(8), blocks 0..13 finalized, two prune calls made and
\* their transactions written: the roots of blocks 1..8 are gone, those of
\* blocks 9..12 are in place.
C8_Witness ==
    /\ min_blocks_to_keep = Some(KeepDigest)
    /\ meta.finalized_number = 13
    /\ prune_count = 2
    /\ last.op = "write"
    /\ \A b \in 1..8 : ~HasRoot(db, b)
    /\ \A b \in 9..12 : HasRoot(db, b)

\* The reach of the last digest over block b: the first block covered by the
\* top-level digest that covers b.
LastDigestReach(config, b) ==
    LET M == TopInterval(config) IN (((b + M - 1) \div M) * M) - M + 1

\* C8 (as claimed): after a prune at a finalized tip F and the write of its
\* transaction, get returns None for the root of every block whose
\* last-digest-reach is strictly below F - K, and Some for every other block.
C8_LastDigestReach ==
    (IsSome(min_blocks_to_keep) /\ PruneCallable) =>
        \A config \in DigestConfigs, n \in 1..MaxTip :
            (n <= meta.finalized_number) =>
                LET after == AfterPrune(db, config, db.key_lookup[n], n) IN
                \A b \in ChainBlocks :
                    HasRoot(after, b) <=>
                        ~(LastDigestReach(config, b) < n - Unwrap(min_blocks_to_keep))

\* C9: under Keep(K) with the flat configuration, a prune at the tip (hash of
\* the canonical block F, F) with F > K followed by the write of its
\* transaction removes the trie of block F - K, its root and the nodes below
\* it, and nothing else: get no longer returns the root node of block F - K,
\* and the root node of block F - K + 1 is still returned when it was before.  With K = 4, prune at tip 5 removes the root of block 1
\* and keeps that of block 2, and a following prune at tip 6 removes the root
\* of block 2 and keeps that of block 3.
C9_FlatPruning ==
    (IsSome(min_blocks_to_keep) /\ PruneCallable) =>
        /\ \A F \in ChainBlocks : F > Unwrap(min_blocks_to_keep) =>
              \A after \in {AfterPrune(db, Configuration(0, 0), db.key_lookup[F], F)} :
                  /\ after = Without(db, TrieNodes(db, RootKey(F - Unwrap(min_blocks_to_keep))))
                  /\ ~HasRoot(after, F - Unwrap(min_blocks_to_keep))
                  /\ HasRoot(db, F - Unwrap(min_blocks_to_keep) + 1)
                        => HasRoot(after, F - Unwrap(min_blocks_to_keep) + 1)
        /\ (/\ min_blocks_to_keep = Some(KeepFlat)
            /\ {5, 6} \subseteq ChainBlocks
            /\ \A b \in 1..3 : HasRoot(db, b))
           => LET after5 == AfterPrune(db, Configuration(0, 0), db.key_lookup[5], 5)
                  after6 == AfterPrune(after5, Configuration(0, 0), db.key_lookup[6], 6)
              IN  /\ ~HasRoot(after5, 1) /\ HasRoot(after5, 2)
                  /\ ~HasRoot(after6, 2) /\ HasRoot(after6, 3)

\* C9 witness: Keep(4) on the chain of the test, two prune calls made and
\* their transactions written: get returns neither the root of block 1 nor
\* that of block 2, and still that of block 3.
C9_Witness ==
    /\ min_blocks_to_keep = Some(KeepFlat)
    /\ prune_count = 2
    /\ last.op = "write"
    /\ 6 \in ChainBlocks
    /\ ~HasRoot(db, 1) /\ ~HasRoot(db, 2)
    /\ \A b \in 3..6 : HasRoot(db, b)

\* Whether the sequence s starts with the sequence t.
IsPrefix(t, s) == Len(t) <= Len(s) /\ \A i \in 1..Len(t) : s[i] = t[i]

\* Whether the step is one of a running prune, one of a running commit, and
\* the drop of the caller's transaction.
PruneStep == locks'.pc.pruner # locks.pc.pruner
CommitStep ==
    /\ ~PruneStep
    /\ locks.pc.importer \in {"idle", "commit_enter", "commit"}
    /\ locks'.pc.importer # locks.pc.importer
DropStep == TxOpen /\ ~TxOpen' /\ last'.op = "drop"

\* C10: a commit or prune call leaves the KV store as it is and only appends
\* operations to the caller's transaction, in every step it takes, a prune
\* call deletions of trie nodes only; the store changes only by the caller's
\* write, and a dropped transaction leaves the store as it was.
C10_EngineOnlyAppends ==
    [][/\ (CommitStep \/ PruneStep) =>
             /\ db' = db
             /\ IsPrefix(tx, tx')
       /\ PruneStep =>
             \A i \in (Len(tx) + 1)..Len(tx') :
                 tx'[i].op = "delete" /\ tx'[i].col = "changes_trie"
       /\ CommitStep =>
             \A i \in (Len(tx) + 1)..Len(tx') : tx'[i].op = "put"
       /\ DropStep => db' = db /\ tx' = << >>
       /\ db' # db => last'.op \in {"write", "finalize"}]_vars

\* C10 witness: a prune call has appended deletions to a transaction that
\* holds the puts of a staged block; the store holds neither the block nor a
\* change of the transaction.
C10_Witness ==
    /\ last.op = "prune"
    /\ IsSome(pending)
    /\ Unwrap(pending).hash \notin DOMAIN db.header
    /\ \E i \in 1..Len(tx) : tx[i].op = "put" /\ tx[i].col = "changes_trie"
    /\ \E j \in 1..Len(tx) : /\ tx[j].op = "delete"
                             /\ tx[j].key \in DOMAIN db.changes_trie


\* ------------------------------------------------------ cache claims

\* The positions of the cache transitions staged in the transaction.
CacheOpsIn(t) == {i \in 1..Len(t) : t[i].col = "cache"}

\* The cache operations of the transition parent_block -> block that sets
\* CHANGES_TRIE_CONFIG to the encoding of the signalled configuration c.
ExpectedOps(parent_block, block, c, finalized) ==
    [parent     |-> parent_block,
     block      |-> block,
     cache_at   |-> [key |-> CHANGES_TRIE_CONFIG, value |-> Encode(c)],
     entry_type |-> IF finalized THEN "Final" ELSE "NonFinal"]

\* C11: commit returns cache operations exactly when the header carried a
\* configuration signal.  Without a signal it returns Ok(None) and stages no
\* cache transition.  With a signal Some(c), the removal Some(None)
\* included, it stages exactly one cache transition parent_block -> block
\* with CHANGES_TRIE_CONFIG set to encode(c), of type Final when the block
\* is finalized and NonFinal otherwise, and returns Some(ops) of that
\* transition, unless the transition fails, which happens with a signal
\* only.
C11_OpsExactlyOnSignal ==
    last.op = "commit" =>
        /\ ~IsSome(last.new_configuration) =>
              /\ last.result = Ok(None)
              /\ ReturnedOps(pending) = << >>
              /\ CacheOpsIn(tx) = {}
        /\ IsSome(last.new_configuration) /\ IsOk(last.result) =>
              LET e == ExpectedOps(last.parent_block, last.block,
                                   Unwrap(last.new_configuration), last.finalized)
              IN  /\ last.result = Ok(Some(e))
                  /\ ReturnedOps(pending) = <<e>>
                  /\ CacheOpsIn(tx) = {Len(tx)}
                  /\ tx[Len(tx)].key = last.block.hash
                  /\ tx[Len(tx)].val = [cache_at |-> e.cache_at, entry_type |-> e.entry_type]
        /\ ~IsOk(last.result) => IsSome(last.new_configuration)

\* C11 witness: a finalized block whose header signals the removal of the
\* configuration was committed on a written block that signalled nothing:
\* the call returned the operations of a Final transition to encode(None).
C11_Witness ==
    /\ last.op = "commit"
    /\ last.finalized
    /\ last.new_configuration = Some(None)
    /\ last.parent_block = ComplexBlockId(2, 1)
    /\ db.header[2].signal = None
    /\ 2 \notin DOMAIN db.cache
    /\ IsOk(last.result) /\ IsSome(last.result.val)
    /\ Unwrap(last.result.val).entry_type = "Final"
    /\ Unwrap(last.result.val).cache_at.value = Encode(None)

\* The numbers of the blocks on the fork of b, b included, whose header
\* carries a configuration signal.
SignalNumbers(d, b) ==
    {n \in DOMAIN PathTo(d, b) : IsSome(d.header[PathTo(d, b)[n]].signal)}

\* The configuration in force at block b by the headers of its fork: that of
\* the signal with the highest number, the genesis configuration without one.
SignalledConfiguration(d, b) ==
    IF SignalNumbers(d, b) = {} THEN GenesisConfiguration
    ELSE LET n == CHOOSE x \in SignalNumbers(d, b) : \A y \in SignalNumbers(d, b) : y <= x
         IN  Unwrap(d.header[PathTo(d, b)[n]].signal)

\* C12: whenever every written commit has been post-committed, the value of
\* the cache for CHANGES_TRIE_CONFIG at every stored block b is the encoding
\* of the configuration of the most recent signal carried by b or by an
\* ancestor on the fork of b, and of the genesis configuration when that
\* fork carries no signal; a block without a signal has the value of its
\* parent.
C12_CacheFollowsSignals ==
    (ops = << >> /\ pending = None) =>
        \A b \in DOMAIN db.header :
            /\ value_at_block(cache, db, b) = Encode(SignalledConfiguration(db, b))
            /\ (~IsSome(db.header[b].signal) /\ db.header[b].number > 0) =>
                   value_at_block(cache, db, b) =
                       value_at_block(cache, db, db.header[b].parent_hash)

\* C12 witness: two forks on genesis, one whose block signals the removal of
\* the configuration and one whose block signals nothing; after the
\* post_commit the first has the encoding of None and the second the
\* encoding of the genesis configuration.
C12_Witness ==
    /\ ops = << >> /\ pending = None
    /\ DOMAIN db.header = {1, 2, 3}
    /\ db.header[2].parent_hash = 1 /\ db.header[3].parent_hash = 1
    /\ db.header[2].signal = Some(None)
    /\ db.header[3].signal = None
    /\ value_at_block(cache, db, 2) = Encode(None)
    /\ value_at_block(cache, db, 3) = Encode(GenesisConfiguration)

\* C19: a commit whose cache transition fails returns the ClientError and
\* no cache operations; the trie puts of the block are staged in the
\* transaction by then, no cache transition is, and neither the KV store nor
\* the in-memory cache has changed: the call has left both as they were,
\* the store holds neither the node of the block's own nor a cache entry of
\* the block, and the in-memory cache holds no entry of it.  The caller does
\* not write after the error; when it drops the transaction, the KV store
\* and the in-memory cache are still what they were.
C19_FailedTransitionLeavesNothing ==
    [][/\ (last'.op = "commit" /\ ~IsOk(last'.result)) =>
             /\ last'.result = Err(<<"ClientError::Backend">>)
             /\ IsSome(last'.new_configuration)
             /\ ReturnedOps(pending') = << >>
             /\ \A k \in DOMAIN last'.changes_trie :
                   \E i \in 1..Len(tx') : tx'[i].col = "changes_trie" /\ tx'[i].key = k
             /\ CacheOpsIn(tx') = {}
             /\ db' = db
             /\ last' # last => cache' = cache /\ ops' = ops
             /\ OwnLeaf(last'.block.hash) \notin DOMAIN db'.changes_trie
             /\ last'.block.hash \notin DOMAIN db'.cache
             /\ last'.block.hash \notin DOMAIN cache'
       /\ (last.op = "commit" /\ ~IsOk(last.result) /\ last' # last) =>
             /\ last'.op = "drop"
             /\ tx' = << >> /\ pending' = None /\ ops' = ops
             /\ db' = db /\ cache' = cache]_vars

\* C19 witness: the commit of a block with a trie of three nodes and a
\* configuration signal has failed in the cache transition: the transaction
\* holds the three trie puts, the store holds neither the node of the
\* block's own nor a cache entry for it.
C19_Witness ==
    /\ last.op = "commit"
    /\ ~IsOk(last.result)
    /\ ReturnedOps(pending) = << >>
    /\ Cardinality({i \in 1..Len(tx) : tx[i].col = "changes_trie"}) = 3
    /\ OwnLeaf(last.block.hash) \notin DOMAIN db.changes_trie
    /\ last.block.hash \notin DOMAIN db.cache
    /\ last.block.hash \notin DOMAIN cache

\* ---------------------------------------------------- retention claims

\* Whether the stored block h is within the retention window of Keep(k): one
\* of the k blocks behind the finalized tip, or a block above it.
InWindow(h, k) == db.header[h].number + k > meta.finalized_number

\* The nodes of the changes trie of the stored block h.
NodesOf(h) ==
    IF IsSome(db.header[h].changes_trie_root)
    THEN TrieNodes(db, Unwrap(db.header[h].changes_trie_root)) ELSE {}

C14_ArchiveOldestIsOne ==
    min_blocks_to_keep = None =>
        \A config \in PruneConfigs, f \in {meta.finalized_number} \cup 0..MaxTip :
            oldest_changes_trie_block(min_blocks_to_keep, config, f) = 1

\* C14 witness: an archive node with blocks 0..13 finalized answers 1 for
\* the configuration {interval 2, levels 2}, for which a node with Keep(8)
\* answers 5, and for the configuration without digests, for which a node
\* with Keep(4) answers 10.
C14_Witness ==
    /\ min_blocks_to_keep = None
    /\ meta.finalized_number = 13
    /\ oldest_changes_trie_block(min_blocks_to_keep, Configuration(2, 2), meta.finalized_number) = 1
    /\ oldest_changes_trie_block(min_blocks_to_keep, Configuration(0, 0), meta.finalized_number) = 1
    /\ oldest_changes_trie_block(Some(KeepDigest), Configuration(2, 2), meta.finalized_number) = 5
    /\ oldest_changes_trie_block(Some(KeepFlat), Configuration(0, 0), meta.finalized_number) = 10

\* ------------------------------------------------------- anchor claims

\* C15: build_anchor returns, for every hash a header is stored under, on
\* the canonical chain or on a side fork, the anchor of that hash and of the
\* number of the stored header, which is the length of its chain of parents;
\* for a hash without a header it returns the error "Unknown header: <hash>".
C15_BuildAnchor ==
    \A hash \in AnchorHashes :
        IF hash \in DOMAIN db.header
        THEN /\ build_anchor(db, hash) =
                    Ok([hash |-> hash, number |-> db.header[hash].number])
             /\ build_anchor(db, hash).val.number + 1 = Cardinality(DOMAIN PathTo(db, hash))
        ELSE build_anchor(db, hash) = Err(<<"Unknown header: ", hash>>)

\* C15 witness: a side fork next to a longer canonical chain.  The anchor of
\* the side block has the side block's hash and number, not the canonical
\* block's at that number, and the hash nothing is stored under is unknown.
C15_Witness ==
    \E h \in DOMAIN db.header :
        /\ db.header[h].number = 1
        /\ 1 \in DOMAIN db.key_lookup /\ db.key_lookup[1] # h
        /\ 2 \in DOMAIN db.key_lookup
        /\ build_anchor(db, h) = Ok(Anchor(h, 1))
        /\ build_anchor(db, NextHash(db)) = Err(<<"Unknown header: ", NextHash(db)>>)

\* C17: for an anchor that is the canonical block at its number and every
\* target b with finalized_number < b <= anchor.number, root returns the
\* ChangesTrieRoot digest of the canonical header at b, and the only headers
\* it reads are the canonical ones at anchor.number and at b, both through
\* the number index: no header is read by hash, no parent pointer followed.
C17_CanonicalAnchorShortcut ==
    \A h \in AnchorHashes, n \in Numbers, b \in Numbers :
        (/\ DbGet(db, "key_lookup", n) = Some(h)
         /\ meta.finalized_number < b
         /\ b <= n)
        => /\ b \in DOMAIN db.key_lookup
           /\ RootRun(db, meta, Anchor(h, n), b) =
                  [result |-> Ok(CanonicalRoot(b)),
                   reads  |-> <<BlockIdNumber(n), BlockIdNumber(b)>>]

\* C17 witness: the best block at number 2 as the anchor and the target 1
\* not finalized, with a side block at number 1 that has another root than
\* the canonical block there; root gives the canonical root.
C17_Witness ==
    \E h \in DOMAIN db.header, g \in DOMAIN db.header :
        /\ db.header[h].number = 2
        /\ DbGet(db, "key_lookup", 2) = Some(h)
        /\ meta.finalized_number = 0
        /\ db.header[g].number = 1 /\ db.key_lookup[1] # g
        /\ db.header[g].changes_trie_root # CanonicalRoot(1)
        /\ IsSome(CanonicalRoot(1))
        /\ Root(StoredAnchor(h), 1) = Ok(CanonicalRoot(1))

\* Whether the walk of the given number of parent pointers from hash h finds
\* every header it reads.
RECURSIVE WalkStored(_, _, _)
WalkStored(d, h, steps) ==
    /\ h \in DOMAIN d.header
    /\ steps = 0 \/ WalkStored(d, d.header[h].parent_hash, steps - 1)

\* C18: for every anchor and every target b with finalized_number < b <=
\* anchor.number, when no header is stored under anchor.hash or a header of
\* the walk of anchor.number - b parent pointers from it is missing, root
\* returns an error, never Ok with the root of some block.
C18_DanglingAnchorIsError ==
    \A h \in AnchorHashes, n \in Numbers, b \in Numbers :
        (/\ meta.finalized_number < b
         /\ b <= n
         /\ ~WalkStored(db, h, n - b))
        => ~IsOk(Root(Anchor(h, n), b))

\* C18 witness: an anchor with a hash nothing is stored under, at the number
\* 2 of a canonical block, and the target 1, not finalized, at which a
\* canonical block with a root is stored: root reads the header under the
\* anchor's hash, finds none and returns the error.
C18_Witness ==
    /\ 2 \in DOMAIN db.key_lookup
    /\ meta.finalized_number = 0
    /\ IsSome(CanonicalRoot(1))
    /\ LET r == RootRun(db, meta, Anchor(NextHash(db), 2), 1) IN
       /\ r.reads = <<BlockIdNumber(2), BlockIdHash(NextHash(db))>>
       /\ r.result = Err(<<"UnknownBlock: header not found in db: ", "Hash", NextHash(db)>>)

\* ------------------------------------------------- termination claims

\* The header lookups by hash among the lookups of a resolution.
HashReads(reads) == SelectSeq(reads, LAMBDA r : r.by = "Hash")

\* Whether root enters the traversal for the anchor and the target: the
\* target is at most the anchor's number and not finalized, a canonical
\* header is stored at the anchor's number, and it is not the anchor.
WalkEntered(h, n, b) ==
    /\ b <= n
    /\ meta.finalized_number < b
    /\ n \in DOMAIN db.key_lookup
    /\ db.key_lookup[n] # h

\* C21 as stated: whenever root enters the traversal, the walk reads exactly
\* anchor.number - b headers by hash.
C21_WalkReadsExactly ==
    \A h \in AnchorHashes, n \in Numbers, b \in Numbers :
        WalkEntered(h, n, b) =>
            Len(HashReads(RootBlockId(db, meta, Anchor(h, n), b).reads)) = n - b

\* C21 (amended): root makes at most anchor.number - b + 2 header lookups.
\* Outside the traversal (target above the anchor, finalized target,
\* canonical anchor, no canonical header at the anchor's number) the
\* resolution reads no header by hash.  In the traversal the walk reads at
\* most anchor.number - b headers by hash, and exactly that many unless a
\* read before the last finds no header; a missing header ends it with an
\* error.  For a
\* stored anchor the i-th read is the ancestor at number anchor.number - i + 1,
\* so the walk goes down by one per step and ends above b, and it resolves
\* to the ancestor at b.
C21_WalkIsBounded ==
    \A h \in AnchorHashes, n \in Numbers, b \in Numbers :
        LET id == RootBlockId(db, meta, Anchor(h, n), b)
            walk == HashReads(id.reads)
        IN  /\ Len(RootRun(db, meta, Anchor(h, n), b).reads) <= (IF b <= n THEN n - b + 2 ELSE 0)
            /\ (b <= n /\ ~WalkEntered(h, n, b)) => walk = << >>
            /\ WalkEntered(h, n, b) =>
                  /\ Len(walk) <= n - b
                  /\ (n - b <= 1 \/ WalkStored(db, h, n - b - 2)) <=> Len(walk) = n - b
                  /\ Len(walk) < n - b => ~IsOk(id.id)
                  /\ (h \in DOMAIN db.header /\ db.header[h].number = n) =>
                        /\ \A i \in 1..(n - b) : walk[i] = BlockIdHash(PathTo(db, h)[n - i + 1])
                        /\ id.id = Ok(BlockIdHash(PathTo(db, h)[b]))

\* C21 witness: a stored block at number 2 beside the canonical block at
\* number 2 as the anchor, the target 1 not finalized: root reads the
\* canonical header at 2 by number, one header by hash on the walk, and the
\* header it resolved to.
C21_Witness ==
    \E h \in DOMAIN db.header :
        /\ db.header[h].number = 2
        /\ WalkEntered(h, 2, 1)
        /\ RootRun(db, meta, StoredAnchor(h), 1).reads =
              <<BlockIdNumber(2), BlockIdHash(h), BlockIdHash(db.header[h].parent_hash)>>
        /\ IsOk(Root(StoredAnchor(h), 1))

\* Whether the stored block h and all its ancestors are the canonical blocks
\* at their numbers in the store d.
CanonicalPath(d, h) ==
    \A k \in DOMAIN PathTo(d, h) : DbGet(d, "key_lookup", k) = Some(PathTo(d, h)[k])

\* C22: when finalization moves to a higher block that is canonical, root
\* returns after the step what it returned before it, for every stored
\* anchor that is canonical with all its ancestors and every target b <=
\* anchor.number: the root of the anchor's ancestor at b.
C22_StableUnderFinalization ==
    [][(/\ meta'.finalized_number > meta.finalized_number
        /\ DbGet(db, "key_lookup", meta'.finalized_number) = Some(meta'.finalized_hash))
       => \A h \in DOMAIN db.header :
              CanonicalPath(db, h) =>
                  \A b \in 0..db.header[h].number :
                      /\ RootRun(db', meta', StoredAnchor(h), b).result =
                            RootRun(db, meta, StoredAnchor(h), b).result
                      /\ RootRun(db', meta', StoredAnchor(h), b).result =
                            Ok(AncestorRoot(h, b))]_vars

\* C22 witness: finalization has moved from block 1 to block 2 of the
\* canonical chain 0..3, and root for the anchor at block 3 and the target 2,
\* resolved through the anchor before the step and through the finalized
\* branch after it, gives the root of block 2.
C22_Witness ==
    /\ last.op = "finalize"
    /\ meta.finalized_number = 2
    /\ 3 \in DOMAIN db.key_lookup
    /\ CanonicalPath(db, db.key_lookup[3])
    /\ IsSome(CanonicalRoot(2))
    /\ CanonicalRoot(2) # CanonicalRoot(3)
    /\ Root(StoredAnchor(db.key_lookup[3]), 2) = Ok(CanonicalRoot(2))

\* Whether the number index is a chain linked by parent pointers: the
\* canonical block at every number above 0 has the canonical block at the
\* number below as its parent.
ChainLinked ==
    \A k \in DOMAIN db.key_lookup :
        k > 0 => /\ k - 1 \in DOMAIN db.key_lookup
                 /\ db.header[db.key_lookup[k]].parent_hash = db.key_lookup[k - 1]

\* C23: when the number index is a chain linked by parent pointers, then for
\* every anchor that is the canonical block at its number and every target
\* b <= anchor.number, the walk of anchor.number - b parent pointers from the
\* anchor ends at the canonical block at b, so the root of the header looked
\* up by number b is the root of the header the walk reaches, and it is what
\* root returns.
C23_ShortcutAgreesWithWalk ==
    ChainLinked =>
        \A h \in DOMAIN db.header, b \in Numbers :
            (DbGet(db, "key_lookup", db.header[h].number) = Some(h) /\ b <= db.header[h].number)
            => LET walk == Traverse(db, h, db.header[h].number, b, << >>) IN
               /\ walk.id = Ok(BlockIdHash(db.key_lookup[b]))
               /\ RequireHeader(db, walk.id.val).val.changes_trie_root =
                     RequireHeader(db, BlockIdNumber(b)).val.changes_trie_root
               /\ Root(StoredAnchor(h), b) =
                     Ok(RequireHeader(db, walk.id.val).val.changes_trie_root)

\* C23 witness: the canonical block at number 2 as the anchor and the target
\* 0, beside a stored block that is not canonical at its number: the walk of
\* two parent pointers from the anchor ends at the canonical block at 0, whose
\* root differs from the anchor's.
C23_Witness ==
    /\ ChainLinked
    /\ 2 \in DOMAIN db.key_lookup
    /\ \E g \in DOMAIN db.header : DbGet(db, "key_lookup", db.header[g].number) # Some(g)
    /\ CanonicalRoot(0) # CanonicalRoot(2)
    /\ LET walk == Traverse(db, db.key_lookup[2], 2, 0, << >>) IN
       /\ Len(walk.reads) = 2
       /\ walk.id = Ok(BlockIdHash(db.key_lookup[0]))

\* C24 (as claimed): for every stored anchor whose ancestors down to number
\* b are all stored and every b with finalized_number < b <= anchor.number,
\* root returns Ok, also when no canonical header exists at anchor.number.
C24_RootOkOnStoredFork ==
    \A h \in DOMAIN db.header, b \in Numbers :
        (/\ meta.finalized_number < b
         /\ b <= db.header[h].number
         /\ WalkStored(db, h, db.header[h].number - b))
        => IsOk(Root(StoredAnchor(h), b))

\* The case of C24 in which the code answers with an error: a stored anchor
\* above the end of the number index, its ancestors stored, and root failing
\* at the lookup of the canonical header at the anchor's number, which is the
\* only header it reads.
C24_NoCanonicalHeaderAtAnchor ==
    \E h \in DOMAIN db.header, b \in Numbers :
        /\ meta.finalized_number < b
        /\ b <= db.header[h].number
        /\ WalkStored(db, h, db.header[h].number - b)
        /\ db.header[h].number \notin DOMAIN db.key_lookup
        /\ RootRun(db, meta, StoredAnchor(h), b).reads = <<BlockIdNumber(db.header[h].number)>>
        /\ ~IsOk(Root(StoredAnchor(h), b))

\* ------------------------------------------------------------- slashing

\* Fraction::new: the two parts as given.  The first is the one
\* Fraction::denominator returns and the second the one Fraction::numerator
\* returns; the rate of a fraction is the first over the second.
Fraction(denominator, numerator) == [denominator |-> denominator, numerator |-> numerator]

\* A severity that takes the cap only when the quotient exceeds one.
severity_strict(k, n) ==
    LET numerator == 20 * n
        denominator == 3 * k - 3
    IN  IF denominator \div n > 1 THEN Fraction(1, 20) ELSE Fraction(denominator, numerator)

\* Unresponsive::severity for k offenders among n validators, k >= 1 and
\* n >= 1 (3 * k - 3 underflows u64 for k = 0, and the division fails for
\* n = 0); the products stay far below 2^64 for the numbers of this model.
\* The division is that of u64: it truncates.
severity(k, n) ==
    LET numerator == 20 * n
        denominator == 3 * k - 3
    IN  IF denominator \div n >= 1 THEN Fraction(1, 20) ELSE Fraction(denominator, numerator)

\* The highest number of offenders and of validators: those of the test
\* unresponsiveness and one more offender.
MaxK == 35
MaxN == 100

\* A call of severity; the function is pure, so one call per behaviour
\* covers every call.
SeverityCall(k, n) ==
    /\ last.op = "new"
    /\ last' = [op |-> "severity", k |-> k, n |-> n, result |-> severity(k, n)]
    /\ UNCHANGED <<locks, db, meta, cache, tx, ops, pending, min_blocks_to_keep, committed, prune_count>>

SeverityNext == \E k \in 1..MaxK, n \in 1..MaxN : SeverityCall(k, n)

SpecSeverity == Init /\ [][SeverityNext]_vars

\* C16: for k >= 1 and n >= 1 the rate of the severity of Unresponsive is
\* 0.05 * min(3(k-1)/n, 1): exactly 1/20 when 3(k-1) >= n, exactly
\* (3k-3)/(20n) otherwise, and never more than 1/20.  Rates are compared as
\* fractions, by cross-multiplication.
C16_UnresponsiveSeverity ==
    last.op = "severity" =>
        LET k == last.k
            n == last.n
            s == last.result
        IN  /\ s.numerator > 0 /\ s.denominator >= 0
            /\ 3 * (k - 1) >= n => s.denominator * 20 = s.numerator
            /\ 3 * (k - 1) < n => s.denominator * (20 * n) = s.numerator * (3 * k - 3)
            /\ s.denominator * 20 <= s.numerator

\* C16 witness: 34 offenders among 100 validators, one short of the cap:
\* the rate is 99/2000 = 0.0495.
C16_Witness ==
    /\ last.op = "severity"
    /\ last.k = 34 /\ last.n = 100
    /\ last.result = Fraction(99, 2000)

\* ---------------------------------------------------------- concurrency

\* Four threads share the storage: a pruner that calls prune and writes the
\* transaction of its deletions, a finalizer that stores finalized_number
\* under the write lock of Meta, an importer that calls commit, writes its
\* transaction and then updates Meta under the write lock, and a thread that
\* calls post_commit with the cache operations of the written transactions.
\* The steps are the lock operations of the handlers.

\* The number of headers of the concurrent specification, genesis included,
\* and the highest finalized_number the finalizer stores.
MaxLockBlocks == 3
MaxFinalized == 2

\* The configuration and the tip of the prune calls: those of the test.
LockConfig == Configuration(2, 2)
LockTip == Anchor(DefaultHash, 12)

InitLocks == InitStore /\ min_blocks_to_keep \in {None, Some(KeepDigest)}

\* The finalizer asks for the write guard of Meta and is parked on the lock.
FinalizerRequest ==
    /\ locks.pc.finalizer = "idle"
    /\ meta.finalized_number < MaxFinalized
    /\ locks' = [locks EXCEPT !.meta_waiting = @ \cup {"finalizer"}, !.pc.finalizer = "waiting"]
    /\ UNCHANGED <<db, meta, cache, tx, ops, pending, min_blocks_to_keep, committed,
                   prune_count, last>>

\* The finalizer gets the write guard once no guard is held.
FinalizerEnter ==
    /\ locks.pc.finalizer = "waiting"
    /\ MetaWriteFree
    /\ locks' = [locks EXCEPT !.meta_waiting = @ \ {"finalizer"}, !.meta_writer = TRUE,
                              !.pc.finalizer = "writing"]
    /\ UNCHANGED <<db, meta, cache, tx, ops, pending, min_blocks_to_keep, committed,
                   prune_count, last>>

\* The finalizer stores a higher finalized_number and drops the guard.
FinalizerStore(n) ==
    /\ locks.pc.finalizer = "writing"
    /\ n > meta.finalized_number
    /\ meta' = [meta EXCEPT !.finalized_number = n]
    /\ locks' = [locks EXCEPT !.meta_writer = FALSE, !.pc.finalizer = "idle"]
    /\ UNCHANGED <<db, cache, tx, ops, pending, min_blocks_to_keep, committed,
                   prune_count, last>>

LocksNext ==
    \/ PruneEnter(LockConfig, LockTip.hash, LockTip.number, TRUE)
    \/ RootEnter
    \/ RootRead
    \/ RootResolve
    \/ PruneExit
    \/ FinalizerRequest
    \/ FinalizerEnter
    \/ \E n \in 1..MaxFinalized : FinalizerStore(n)
    \/ \E signal \in {None, Some(Some(LockConfig))} :
          /\ NextHash(db) <= MaxLockBlocks
          /\ CommitBlock(meta.best_hash, {NextHash(db)}, "Best", signal)
    \/ CommitEnter
    \/ CommitTransition(TRUE)
    \/ KvWrite
    \/ MetaRequest
    \/ MetaEnter
    \/ MetaUpdate
    \/ PostCommitCall
    \/ PostCommitEnter
    \/ PostCommitApply

SpecLocks == InitLocks /\ [][LocksNext]_vars

\* Whether a call of some thread is under way.
Busy == \E t \in DOMAIN locks.pc : locks.pc[t] # "idle"

\* Whether some call under way can take its next step: a thread that is
\* not about to take a guard can, and one that is can when the lock lets it.
CanProgress ==
    \/ locks.pc.pruner \in {"root_read", "root_resolve", "prune_exit"}
    \/ locks.pc.pruner = "root_enter" /\ MetaReadFree
    \/ locks.pc.finalizer = "waiting" /\ MetaWriteFree
    \/ locks.pc.finalizer = "writing" /\ meta.finalized_number < MaxFinalized
    \/ locks.pc.importer = "commit"
    \/ locks.pc.importer = "commit_enter" /\ CacheWriteFree
    \/ locks.pc.importer \in {"staged", "written", "meta_update"}
    \/ locks.pc.importer = "meta_enter" /\ MetaWriteFree
    \/ locks.pc.poster = "post_commit"
    \/ locks.pc.poster = "post_commit_enter" /\ CacheWriteFree

\* C20: the only guard the pruner ever holds is the read guard of Meta, and
\* only between root taking it and root having read finalized_number: none
\* on entering prune, none while root resolves the block, none when the
\* next call back is made, and never one of the cache.  The write guard of
\* Meta is held by the finalizer while it stores and by the importer while
\* it updates Meta for a written block, one of them at a time and beside no
\* reader; the threads parked on it are those that asked and were not yet
\* granted it.  The write guard of the cache is held by commit and
\* post_commit only, one of them at a time.  Whenever a call is
\* under way in any of the threads, some call under way can take its next
\* step: no state is a deadlock.
C20_NoDeadlock ==
    /\ locks.meta_readers = (IF locks.pc.pruner = "root_read" THEN 1 ELSE 0)
    /\ locks.meta_writer <=>
          (locks.pc.finalizer = "writing" \/ locks.pc.importer = "meta_update")
    /\ ~(locks.pc.finalizer = "writing" /\ locks.pc.importer = "meta_update")
    /\ locks.meta_writer => locks.meta_readers = 0
    /\ locks.meta_waiting = {t \in {"finalizer"} : locks.pc.finalizer = "waiting"}
                             \cup {t \in {"importer"} : locks.pc.importer = "meta_enter"}
    /\ locks.cache_writer <=>
          (locks.pc.importer = "commit" \/ locks.pc.poster = "post_commit")
    /\ ~(locks.pc.importer = "commit" /\ locks.pc.poster = "post_commit")
    /\ Busy => CanProgress

\* C20 witness: root, called back for the third block of the range of a
\* prune, holds the read guard of Meta while the finalizer is parked on the
\* write guard, commit holds the write guard of the cache and post_commit
\* waits for it.
C20_Witness ==
    /\ locks.pc = [pruner |-> "root_read", finalizer |-> "waiting", importer |-> "commit",
                   poster |-> "post_commit_enter"]
    /\ Len(locks.todo) = 2
    /\ locks.meta_readers = 1 /\ locks.meta_waiting = {"finalizer"} /\ locks.cache_writer
    /\ meta.finalized_number = 1

\* --------------------------------------------------- root, step by step

\* The block tree a querier runs beside: blocks 1..MaxQueryBlocks.
MaxQueryBlocks == 3

\* A querier calls root for a stored anchor.  A target above the anchor is
\* refused at once; otherwise the call goes on to Meta.
RootCall(h, block) ==
    /\ locks.query.pc = "idle"
    /\ h \in DOMAIN db.header
    /\ LET anchor == Anchor(h, db.header[h].number) IN
       locks' = [locks EXCEPT !.query =
                    [NoQuery EXCEPT !.anchor = anchor, !.block = block,
                                    !.start = <<db, meta>>,
                                    !.pc = IF block > anchor.number THEN "done" ELSE "read_meta",
                                    !.result = IF block > anchor.number
                                               THEN Some(RootRun(db, meta, anchor, block).result)
                                               ELSE None]]
    /\ UNCHANGED <<db, meta, cache, tx, ops, pending, min_blocks_to_keep, committed,
                   prune_count, last>>

\* root reads finalized_number under the read guard of Meta, which is dropped
\* at the end of the condition.
RootReadMeta ==
    /\ locks.query.pc = "read_meta"
    /\ locks' = [locks EXCEPT !.query.seen = meta.finalized_number,
                              !.query.pc = "resolve"]
    /\ UNCHANGED <<db, meta, cache, tx, ops, pending, min_blocks_to_keep, committed,
                   prune_count, last>>

\* root resolves the target to a block id with the finalized_number it read:
\* the number itself when finalized; otherwise it reads the canonical header
\* at the anchor's number from the store as it is now, and takes the number
\* when that is the anchor, or walks the parent pointers from the anchor.
\* (Stored headers never change, so the walk is one step.)
RootResolveId ==
    /\ locks.query.pc = "resolve"
    /\ LET q  == locks.query
           id == RootBlockId(db, [meta EXCEPT !.finalized_number = q.seen],
                             q.anchor, q.block).id
       IN  locks' = [locks EXCEPT !.query.id = IF IsOk(id) THEN Some(id.val) ELSE None,
                                  !.query.result = IF IsOk(id) THEN None ELSE Some(id),
                                  !.query.pc = IF IsOk(id) THEN "lookup" ELSE "done"]
    /\ UNCHANGED <<db, meta, cache, tx, ops, pending, min_blocks_to_keep, committed,
                   prune_count, last>>

\* root reads the header of the block id it resolved from the store as it is
\* now, and answers with its ChangesTrieRoot digest.
RootLookup ==
    /\ locks.query.pc = "lookup"
    /\ LET header == RequireHeader(db, Unwrap(locks.query.id)) IN
       locks' = [locks EXCEPT !.query.result =
                                  Some(IF IsOk(header) THEN Ok(header.val.changes_trie_root)
                                       ELSE header),
                              !.query.pc = "done"]
    /\ UNCHANGED <<db, meta, cache, tx, ops, pending, min_blocks_to_keep, committed,
                   prune_count, last>>

\* root returns to the querier.
RootReturn ==
    /\ locks.query.pc = "done"
    /\ locks' = [locks EXCEPT !.query = NoQuery]
    /\ UNCHANGED <<db, meta, cache, tx, ops, pending, min_blocks_to_keep, committed,
                   prune_count, last>>

\* Whether the store and Meta are as they were when the running call began.
QueryUndisturbed == locks.query.start = <<db, meta>>

\* The import pipeline beside the querier: a block is imported on any stored
\* parent as a normal or as the new best block, which re-orgs the number
\* index when the parent is not the best block, or a block is finalized.
\* While a call of root is under way at most one of these takes place.
QueryChange ==
    /\ locks.query.pc = "idle" \/ QueryUndisturbed
    /\ \/ \E parent \in DOMAIN db.header, state \in {"Normal", "Best"}, with_root \in BOOLEAN :
             /\ NextHash(db) <= MaxQueryBlocks
             /\ InsertHeader(parent, IF with_root THEN {NextHash(db)} ELSE {}, state, None)
       \/ \E h \in DOMAIN db.header : Finalize(h)

QueryNext ==
    \/ \E h \in DOMAIN db.header, block \in 0..MaxQueryBlocks : RootCall(h, block)
    \/ RootReadMeta
    \/ RootResolveId
    \/ RootLookup
    \/ RootReturn
    \/ QueryChange

SpecQuery == Init /\ [][QueryNext]_vars

\* C25 (as claimed): a call of root beside which the import pipeline made one
\* change, a finalization or a re-org of the number index, between the
\* call's steps, answers with what root answers in the store and Meta as they
\* were before the change or with what it answers in them as they are after
\* it.
C25_AnswerOfBeforeOrAfter ==
    locks.query.pc = "done" =>
        LET q == locks.query IN
        \/ Unwrap(q.result) = RootRun(q.start[1], q.start[2], q.anchor, q.block).result
        \/ Unwrap(q.result) = RootRun(db, meta, q.anchor, q.block).result

\* The case of C25 in which the code answers otherwise: the anchor was the
\* canonical block at its number when root checked it, a re-org that kept
\* finalized_number then gave the target's number to a block of another fork,
\* and root answers with the root of that block, which is not an ancestor of
\* the anchor.
C25_AnswerOfOtherFork ==
    /\ locks.query.pc = "done"
    /\ ~QueryUndisturbed
    /\ locks.query.start[2].finalized_number = meta.finalized_number
    /\ locks.query.id = Some(BlockIdNumber(locks.query.block))
    /\ locks.query.result = Some(Ok(CanonicalRoot(locks.query.block)))
    /\ ~IsAncestorOrSelf(db, db.key_lookup[locks.query.block], locks.query.anchor.hash)
    /\ Root(locks.query.anchor, locks.query.block) = Ok(AncestorRoot(locks.query.anchor.hash, locks.query.block))
    /\ AncestorRoot(locks.query.anchor.hash, locks.query.block) # CanonicalRoot(locks.query.block)

\* ------------------------------------------------------------ shared nodes

\* The chain of the pruning test without digests, with tries that share
\* nodes: blocks 0..MaxSharedChain.
MaxSharedChain == 5

InitShared == InitStore /\ min_blocks_to_keep = Some(KeepFlat)

\* The pruning test without digests on a chain whose blocks have the change
\* of their own or, besides it, the change of their parent, so that the leaf
\* node of that change is in the tries of both.  Blocks are imported as best
\* blocks and finalized one by one; prune is called with the finalized block
\* as its tip and runs callback by callback, in a transaction that is written
\* or dropped.
SharedNext ==
    \/ \E shared \in BOOLEAN :
          /\ NextHash(db) <= MaxSharedChain + 1
          /\ InsertHeader(meta.best_hash,
                          IF shared THEN {NextHash(db) - 1, NextHash(db)} ELSE {NextHash(db)},
                          "Best", None)
    \/ \E h \in DOMAIN db.header : StoreAllowed /\ Finalize(h)
    \/ PruneEnter(Configuration(0, 0), meta.finalized_hash, meta.finalized_number, FALSE)
    \/ RootEnter
    \/ RootRead
    \/ RootResolve
    \/ PruneExit
    \/ KvWrite
    \/ DropTx

SpecShared == InitShared /\ [][SharedNext]_vars

\* C26 (as claimed): under Keep(K), after any imports and prune calls, get
\* returns every node of the changes trie of every block within the
\* retention window (the K blocks behind the finalized block, which is the
\* tip of the latest prune or above it), also a node that is in the trie of
\* a pruned block as well.
C26_RetainedNodesSurvive ==
    IsSome(min_blocks_to_keep) =>
        \A h \in DOMAIN db.header :
            InWindow(h, Unwrap(min_blocks_to_keep)) =>
                \A k \in DOMAIN committed[h] : Get(db, k, << >>) = Ok(Some(committed[h][k]))

\* The case of C26 in which a needed node is gone: a prune at the finalized
\* tip was written, and get returns None for a node of the trie of a block
\* within the retention window, a node that is also in the trie of a block
\* the window has left behind.
C26_SharedNodePruned ==
    /\ last.op = "write" /\ prune_count > 0
    /\ \E h \in DOMAIN db.header, g \in DOMAIN db.header :
          /\ InWindow(h, KeepFlat)
          /\ ~InWindow(g, KeepFlat)
          /\ \E k \in DOMAIN committed[h] \cap DOMAIN committed[g] :
                /\ committed[h][k] = committed[g][k]
                /\ Get(db, k, << >>) = Ok(None)
          /\ \A k \in DOMAIN committed[h] \ DOMAIN committed[g] : IsSome(Get(db, k, << >>).val)

====
